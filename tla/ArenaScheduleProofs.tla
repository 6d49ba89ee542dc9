------------------------- MODULE ArenaScheduleProofs -------------------------
(***************************************************************************)
(* Proofs about ArenaSchedule, for every number of slots, reservations,    *)
(* requests and weeks, and whatever policies the arena is given.           *)
(*                                                                         *)
(* A transaction of the module is a maintenance followed by at most two    *)
(* changes of the three tables slot, res and occ.  The predicates below    *)
(* take the tables as parameters S, R and O, so that each change is proved *)
(* once and a transaction is their composition.                            *)
(***************************************************************************)
EXTENDS ArenaSchedule, FiniteSetTheorems, TLAPS

-----------------------------------------------------------------------------
(* What holds of the tables. *)

Tables(S, R, O) ==
  /\ S \in [Slots -> SlotRow] /\ R \in [Reservations -> ResRow] /\ O \in [Slots -> OccRow]

\* Rows refer to rows that exist.
Tied(S, R, O) ==
  /\ \A r \in Reservations : R[r].status # "NONE" =>
       R[r].slot \in Slots /\ S[R[r].slot].status # "NONE"
  /\ \A x \in Slots : O[x].status # "NONE" =>
       /\ O[x].of \in Reservations /\ S[x].status # "NONE"
       /\ R[O[x].of].status \notin {"NONE", "PENDING"}

\* WeekByWeek, and: an occurrence that is not paid is the last one.
Weeks(S, R, O) ==
  /\ \A x, y \in Slots :
       O[x].status # "NONE" /\ O[y].status # "NONE" /\ O[x].of = O[y].of /\ x # y =>
         /\ S[x].week # S[y].week
         /\ O[x].status # "CONFIRMED" => S[y].week < S[x].week
  /\ \A x \in Slots : O[x].status # "NONE" =>
       /\ S[x].lane = S[R[O[x].of].slot].lane
       /\ S[x].week > S[R[O[x].of].slot].week
       /\ S[x].week > S[R[O[x].of].slot].week + 1 =>
            \E y \in Slots : /\ O[y].status = "CONFIRMED" /\ O[y].of = O[x].of
                             /\ S[y].week = S[x].week - 1

Sound(S, R, O) == Tables(S, R, O) /\ Tied(S, R, O) /\ Weeks(S, R, O)

\* OneUsePerSlot and SlotShowsUse of slot x.
Uses(R, r, x) == R[r].status \in Active /\ R[r].slot = x
Fit(S, R, O, x) ==
  /\ \A r, q \in Reservations : Uses(R, r, x) /\ Uses(R, q, x) => r = q
  /\ O[x].status \in {"PENDING_PAYMENT", "CONFIRMED"} => \A r \in Reservations : ~Uses(R, r, x)
  /\ S[x].status = "HOLD" <=>
       \/ \E r \in Reservations : R[r].status = "PENDING" /\ R[r].slot = x
       \/ O[x].status = "PENDING_PAYMENT"
  /\ S[x].status = "RESERVED" <=>
       \/ \E r \in Reservations : R[r].status \in {"CONFIRMED", "CONSUMED"} /\ R[r].slot = x
       \/ O[x].status = "CONFIRMED"
Fits(S, R, O) == \A x \in Slots : Fit(S, R, O, x)

\* What a change of the tables never does to slots, reservations and occurrences;
\* C has the reservation or the occurrence the change is about.
SlotMoves(S, S2) ==
  \A x \in Slots : S[x].status # "NONE" =>
    S2[x].status # "NONE" /\ S2[x].lane = S[x].lane /\ S2[x].week = S[x].week
Settled == {"CONFIRMED", "CONSUMED"}
ResMoves(C, R, R2) ==
  \A r \in Reservations :
    /\ R[r].status # "NONE" =>
         /\ R2[r].status # "NONE" /\ R2[r].slot = R[r].slot /\ R2[r].type = R[r].type
         /\ R2[r].expires = R[r].expires /\ R2[r].charged = R[r].charged
    /\ R[r].status = "CANCELLED" => R2[r] = R[r]
    /\ R[r].status = "CONSUMED" => R2[r].status \in {"CONSUMED", "CANCELLED"}
    /\ r \notin C =>
         /\ R[r].status = "NONE" => R2[r].status = "NONE"
         /\ R2[r].status \in Active => R[r].status \in Active
         /\ R2[r].status \in Settled => R[r].status \in Settled
         /\ R[r].status \in Settled => R2[r].status \in Settled \cup {"CANCELLED"}
         /\ R2[r].status = "CONSUMED" <=> R[r].status = "CONSUMED"
OccMoves(C, S, O, O2) ==
  \A x \in Slots :
    /\ O[x].status # "NONE" => O2[x].status # "NONE" /\ O2[x].of = O[x].of
    /\ O[x].status \in {"RELEASED", "CONFIRMED"} => O2[x] = O[x]
    /\ x \notin C => (O2[x].status = "CONFIRMED" => O[x].status = "CONFIRMED")
    /\ O2[x].status \in {"PENDING_PAYMENT", "CONFIRMED"}
         /\ O[x].status \notin {"PENDING_PAYMENT", "CONFIRMED"} => S[x].status = "NONE"
Moves(C, S, R, O, S2, R2, O2) ==
  SlotMoves(S, S2) /\ ResMoves(C, R, R2) /\ OccMoves(C, S, O, O2)

-----------------------------------------------------------------------------
(* Lemmas on rows and compositions. *)

LEMMA WithStatusRows ==
  ASSUME NEW D, NEW f, DOMAIN f = D, NEW x, NEW st
  PROVE  /\ DOMAIN WithStatus(f, x, st) = D
         /\ \A z \in D : WithStatus(f, x, st)[z] = IF z = x THEN [f[z] EXCEPT !.status = st] ELSE f[z]
BY DEF WithStatus

LEMMA SlotRows ==
  ASSUME NEW S \in [Slots -> SlotRow], NEW x, NEW st \in SlotStatus
  PROVE  /\ WithStatus(S, x, st) \in [Slots -> SlotRow]
         /\ \A z \in Slots :
              /\ WithStatus(S, x, st)[z].status = IF z = x THEN st ELSE S[z].status
              /\ WithStatus(S, x, st)[z].lane = S[z].lane
              /\ WithStatus(S, x, st)[z].week = S[z].week
<1>1. \A z \in Slots : S[z] \in SlotRow
  OBVIOUS
<1>2. \A z \in Slots : [S[z] EXCEPT !.status = st] \in SlotRow
  BY <1>1 DEF SlotRow
<1>3. QED BY <1>1, <1>2 DEF WithStatus, SlotRow

LEMMA ResRows ==
  ASSUME NEW R \in [Reservations -> ResRow], NEW x, NEW st \in ResStatus
  PROVE  /\ WithStatus(R, x, st) \in [Reservations -> ResRow]
         /\ \A z \in Reservations :
              /\ WithStatus(R, x, st)[z].status = IF z = x THEN st ELSE R[z].status
              /\ WithStatus(R, x, st)[z].slot = R[z].slot
              /\ WithStatus(R, x, st)[z].type = R[z].type
              /\ WithStatus(R, x, st)[z].expires = R[z].expires
              /\ WithStatus(R, x, st)[z].charged = R[z].charged
              /\ z # x => WithStatus(R, x, st)[z] = R[z]
<1>1. \A z \in Reservations : R[z] \in ResRow
  OBVIOUS
<1>2. \A z \in Reservations : [R[z] EXCEPT !.status = st] \in ResRow
  BY <1>1 DEF ResRow
<1>3. WithStatus(R, x, st) = [z \in Reservations |-> IF z = x THEN [R[z] EXCEPT !.status = st] ELSE R[z]]
  BY DEF WithStatus
<1>4. WithStatus(R, x, st) \in [Reservations -> ResRow]
  BY <1>1, <1>2, <1>3
<1>5. QED BY <1>1, <1>3, <1>4 DEF ResRow

LEMMA OccRows ==
  ASSUME NEW O \in [Slots -> OccRow], NEW x, NEW st \in OccStatus
  PROVE  /\ WithStatus(O, x, st) \in [Slots -> OccRow]
         /\ \A z \in Slots :
              /\ WithStatus(O, x, st)[z].status = IF z = x THEN st ELSE O[z].status
              /\ WithStatus(O, x, st)[z].of = O[z].of
              /\ z # x => WithStatus(O, x, st)[z] = O[z]
<1>1. \A z \in Slots : O[z] \in OccRow
  OBVIOUS
<1>2. \A z \in Slots : [O[z] EXCEPT !.status = st] \in OccRow
  BY <1>1 DEF OccRow
<1>3. WithStatus(O, x, st) = [z \in Slots |-> IF z = x THEN [O[z] EXCEPT !.status = st] ELSE O[z]]
  BY DEF WithStatus
<1>4. WithStatus(O, x, st) \in [Slots -> OccRow]
  BY <1>1, <1>2, <1>3
<1>5. QED BY <1>1, <1>3, <1>4 DEF OccRow

\* Nothing moves, and two moves make one.
LEMMA NoMove ==
  ASSUME NEW S, NEW R, NEW O
  PROVE  Moves({}, S, R, O, S, R, O)
BY DEF Moves, SlotMoves, ResMoves, OccMoves, Active, Settled

LEMMA TwoMoves ==
  ASSUME NEW C, NEW D, NEW S, NEW R, NEW O, NEW S1, NEW R1, NEW O1, NEW S2, NEW R2, NEW O2,
         Moves(C, S, R, O, S1, R1, O1), Moves(D, S1, R1, O1, S2, R2, O2)
  PROVE  Moves(C \cup D, S, R, O, S2, R2, O2)
<1>1. SlotMoves(S, S2)
  BY DEF Moves, SlotMoves
<1>2. ResMoves(C \cup D, R, R2)
  BY DEF Moves, ResMoves, Settled
<1>3. OccMoves(C \cup D, S, O, O2)
  BY DEF Moves, OccMoves, SlotMoves
<1>4. QED BY <1>1, <1>2, <1>3 DEF Moves


\* What a change that generates nothing leaves of the rows' ties and weeks.
LEMMA TiedSame ==
  ASSUME NEW S, NEW R, NEW O, NEW S2, NEW R2, NEW O2, Tied(S, R, O), SlotMoves(S, S2),
         \A x \in Slots : O2[x].status # "NONE" =>
           O[x].status # "NONE" /\ O2[x].of = O[x].of,
         \A r \in Reservations :
           /\ R[r].status \notin {"NONE", "PENDING"} => R2[r].status \notin {"NONE", "PENDING"}
           /\ R2[r].status # "NONE" =>
                \/ R[r].status # "NONE" /\ R2[r].slot = R[r].slot
                \/ R2[r].slot \in Slots /\ S[R2[r].slot].status # "NONE"
  PROVE  Tied(S2, R2, O2)
BY DEF Tied, SlotMoves

LEMMA WeeksSame ==
  ASSUME NEW S, NEW R, NEW O, NEW S2, NEW R2, NEW O2, Tied(S, R, O), Weeks(S, R, O),
         SlotMoves(S, S2),
         \A x \in Slots :
           /\ O2[x].status # "NONE" => O[x].status # "NONE" /\ O2[x].of = O[x].of
           /\ O[x].status = "CONFIRMED" => O2[x].status = "CONFIRMED",
         \A r \in Reservations : R[r].status # "NONE" => R2[r].slot = R[r].slot
  PROVE  Weeks(S2, R2, O2)
<1>1. ASSUME NEW x \in Slots, O2[x].status # "NONE"
      PROVE  /\ O[x].status # "NONE" /\ O2[x].of = O[x].of /\ O[x].of \in Reservations
             /\ S2[x].lane = S[x].lane /\ S2[x].week = S[x].week
             /\ R2[O[x].of].slot = R[O[x].of].slot
             /\ S2[R[O[x].of].slot].lane = S[R[O[x].of].slot].lane
             /\ S2[R[O[x].of].slot].week = S[R[O[x].of].slot].week
             /\ O2[x].status # "CONFIRMED" => O[x].status # "CONFIRMED"
  BY <1>1 DEF Tied, SlotMoves
<1>2. ASSUME NEW x \in Slots, NEW y \in Slots, O2[x].status # "NONE", O2[y].status # "NONE",
             O2[x].of = O2[y].of, x # y
      PROVE  /\ S2[x].week # S2[y].week
             /\ O2[x].status # "CONFIRMED" => S2[y].week < S2[x].week
  BY <1>1, <1>2 DEF Weeks
<1>3. ASSUME NEW x \in Slots, O2[x].status # "NONE"
      PROVE  /\ S2[x].lane = S2[R2[O2[x].of].slot].lane
             /\ S2[x].week > S2[R2[O2[x].of].slot].week
             /\ S2[x].week > S2[R2[O2[x].of].slot].week + 1 =>
                  \E y \in Slots : /\ O2[y].status = "CONFIRMED" /\ O2[y].of = O2[x].of
                                   /\ S2[y].week = S2[x].week - 1
  <2>1. S2[x].lane = S2[R2[O2[x].of].slot].lane /\ S2[x].week > S2[R2[O2[x].of].slot].week
    BY <1>1, <1>3 DEF Weeks
  <2>2. ASSUME S2[x].week > S2[R2[O2[x].of].slot].week + 1
        PROVE  \E y \in Slots : /\ O2[y].status = "CONFIRMED" /\ O2[y].of = O2[x].of
                                /\ S2[y].week = S2[x].week - 1
    <3>1. S[x].week > S[R[O[x].of].slot].week + 1
      BY <1>1, <1>3, <2>2
    <3>2. PICK y \in Slots : /\ O[y].status = "CONFIRMED" /\ O[y].of = O[x].of
                             /\ S[y].week = S[x].week - 1
      BY <1>1, <1>3, <3>1 DEF Weeks
    <3>3. O2[y].status = "CONFIRMED" /\ O2[y].of = O2[x].of /\ S2[y].week = S2[x].week - 1
      BY <1>1, <1>3, <3>2
    <3>4. QED BY <3>3
  <2>3. QED BY <2>1, <2>2
<1>4. QED BY <1>2, <1>3 DEF Weeks

-----------------------------------------------------------------------------
(* The maintenance. *)

LEMMA MaintRows ==
  ASSUME Tables(slot, res, occ), NEW t
  PROVE  /\ Tables(SlotAt(t), ResAt(t), OccAt(t))
         /\ \A x \in Slots :
              /\ SlotAt(t)[x].status = IF x \in Freed(t) THEN "AVAILABLE" ELSE slot[x].status
              /\ SlotAt(t)[x].lane = slot[x].lane /\ SlotAt(t)[x].week = slot[x].week
              /\ OccAt(t)[x].status = IF x \in StaleOcc(t) THEN "RELEASED" ELSE occ[x].status
              /\ OccAt(t)[x].of = occ[x].of
              /\ x \notin StaleOcc(t) => OccAt(t)[x] = occ[x]
         /\ \A r \in Reservations :
              /\ ResAt(t)[r].status = IF r \in StaleRes(t) THEN "CANCELLED" ELSE res[r].status
              /\ ResAt(t)[r].slot = res[r].slot /\ ResAt(t)[r].type = res[r].type
              /\ ResAt(t)[r].expires = res[r].expires /\ ResAt(t)[r].charged = res[r].charged
              /\ r \notin StaleRes(t) => ResAt(t)[r] = res[r]
<1>1. \A x \in Slots : /\ slot[x] \in SlotRow /\ [slot[x] EXCEPT !.status = "AVAILABLE"] \in SlotRow
                       /\ occ[x] \in OccRow /\ [occ[x] EXCEPT !.status = "RELEASED"] \in OccRow
  BY DEF Tables, SlotRow, SlotStatus, OccRow, OccStatus
<1>2. \A r \in Reservations : res[r] \in ResRow /\ [res[r] EXCEPT !.status = "CANCELLED"] \in ResRow
  BY DEF Tables, ResRow, ResStatus
<1>3. SlotAt(t) \in [Slots -> SlotRow] /\ OccAt(t) \in [Slots -> OccRow]
  BY <1>1 DEF SlotAt, OccAt
<1>4. ResAt(t) \in [Reservations -> ResRow]
  BY <1>2 DEF ResAt
<1>5. \A x \in Slots :
        /\ SlotAt(t)[x].status = IF x \in Freed(t) THEN "AVAILABLE" ELSE slot[x].status
        /\ SlotAt(t)[x].lane = slot[x].lane /\ SlotAt(t)[x].week = slot[x].week
  BY <1>1 DEF SlotAt, SlotRow
<1>6. \A x \in Slots :
        /\ OccAt(t)[x].status = IF x \in StaleOcc(t) THEN "RELEASED" ELSE occ[x].status
        /\ OccAt(t)[x].of = occ[x].of
        /\ x \notin StaleOcc(t) => OccAt(t)[x] = occ[x]
  BY <1>1 DEF OccAt, OccRow
<1>7. \A r \in Reservations :
        /\ ResAt(t)[r].status = IF r \in StaleRes(t) THEN "CANCELLED" ELSE res[r].status
        /\ ResAt(t)[r].slot = res[r].slot /\ ResAt(t)[r].type = res[r].type
        /\ ResAt(t)[r].expires = res[r].expires /\ ResAt(t)[r].charged = res[r].charged
        /\ r \notin StaleRes(t) => ResAt(t)[r] = res[r]
  BY <1>2 DEF ResAt, ResRow
<1>8. QED BY <1>3, <1>4, <1>5, <1>6, <1>7 DEF Tables

\* Slots that are freed were on hold, and what is stale was open.
LEMMA MaintMoves ==
  ASSUME Tables(slot, res, occ), NEW t
  PROVE  Moves({}, slot, res, occ, SlotAt(t), ResAt(t), OccAt(t))
<1>1. SlotMoves(slot, SlotAt(t))
  BY MaintRows DEF SlotMoves
<1>2. \A r \in StaleRes(t) : res[r].status = "PENDING"
  BY DEF StaleRes
<1>3. \A x \in StaleOcc(t) : occ[x].status = "PENDING_PAYMENT"
  BY DEF StaleOcc
<1>4. ResMoves({}, res, ResAt(t))
  BY MaintRows, <1>2 DEF ResMoves, Active, Settled
<1>5. OccMoves({}, slot, occ, OccAt(t))
  BY MaintRows, <1>3 DEF OccMoves
<1>6. QED BY <1>1, <1>4, <1>5 DEF Moves

LEMMA MaintSound ==
  ASSUME Sound(slot, res, occ), NEW t
  PROVE  Sound(SlotAt(t), ResAt(t), OccAt(t))
<1>1. Tables(slot, res, occ) /\ Tied(slot, res, occ) /\ Weeks(slot, res, occ)
  BY DEF Sound
<1>2. SlotMoves(slot, SlotAt(t))
  BY <1>1, MaintMoves DEF Moves
<1>3. \A r \in StaleRes(t) : res[r].status = "PENDING"
  BY DEF StaleRes
<1>4. \A x \in StaleOcc(t) : occ[x].status = "PENDING_PAYMENT"
  BY DEF StaleOcc
<1>5. \A x \in Slots :
        /\ OccAt(t)[x].status # "NONE" => occ[x].status # "NONE" /\ OccAt(t)[x].of = occ[x].of
        /\ occ[x].status = "CONFIRMED" => OccAt(t)[x].status = "CONFIRMED"
  BY <1>1, <1>4, MaintRows
<1>6. \A r \in Reservations :
        /\ res[r].status \notin {"NONE", "PENDING"} => ResAt(t)[r].status \notin {"NONE", "PENDING"}
        /\ ResAt(t)[r].status # "NONE" => res[r].status # "NONE" /\ ResAt(t)[r].slot = res[r].slot
        /\ ResAt(t)[r].slot = res[r].slot
  BY <1>1, <1>3, MaintRows
<1>7. Tied(SlotAt(t), ResAt(t), OccAt(t))
  BY <1>1, <1>2, <1>5, <1>6, TiedSame
<1>8. Weeks(SlotAt(t), ResAt(t), OccAt(t))
  BY <1>1, <1>2, <1>5, <1>6, WeeksSame
<1>9. QED BY <1>1, <1>7, <1>8, MaintRows DEF Sound

\* The maintenance takes from each slot its use together with its hold.
LEMMA MaintFits ==
  ASSUME Sound(slot, res, occ), Fits(slot, res, occ), NEW t
  PROVE  Fits(SlotAt(t), ResAt(t), OccAt(t))
<1>1. Tables(slot, res, occ)
  BY DEF Sound
<1> DEFINE S2 == SlotAt(t)  R2 == ResAt(t)  O2 == OccAt(t)
<1> SUFFICES ASSUME NEW x \in Slots PROVE Fit(S2, R2, O2, x)
  BY DEF Fits
<1>2. Fit(slot, res, occ, x)
  BY DEF Fits
<1>3. \A r \in Reservations :
        /\ R2[r].status = IF r \in StaleRes(t) THEN "CANCELLED" ELSE res[r].status
        /\ R2[r].slot = res[r].slot
  BY <1>1, MaintRows
<1>4. O2[x].status = IF x \in StaleOcc(t) THEN "RELEASED" ELSE occ[x].status
  BY <1>1, MaintRows
<1>5. S2[x].status = IF x \in Freed(t) THEN "AVAILABLE" ELSE slot[x].status
  BY <1>1, MaintRows
<1>6. \A r \in StaleRes(t) : r \in Reservations /\ res[r].status = "PENDING"
  BY DEF StaleRes
<1>7. x \in StaleOcc(t) => occ[x].status = "PENDING_PAYMENT"
  BY DEF StaleOcc
<1>8. x \in Freed(t) <=> /\ slot[x].status = "HOLD"
                         /\ x \in StaleOcc(t) \/ \E r \in StaleRes(t) : res[r].slot = x
  <2>1. StaleOcc(t) \subseteq Slots
    BY DEF StaleOcc
  <2>2. QED BY <2>1 DEF Freed
<1>9. \A r \in Reservations : Uses(R2, r, x) => Uses(res, r, x) /\ r \notin StaleRes(t)
  BY <1>3 DEF Uses, Active
<1> HIDE DEF S2, R2, O2
<1>10. /\ \A r, q \in Reservations : Uses(R2, r, x) /\ Uses(R2, q, x) => r = q
       /\ O2[x].status \in {"PENDING_PAYMENT", "CONFIRMED"} =>
            \A r \in Reservations : ~Uses(R2, r, x)
  BY <1>2, <1>4, <1>7, <1>9 DEF Fit
<1>11. CASE x \in Freed(t)
  <2>1. slot[x].status = "HOLD" /\ S2[x].status = "AVAILABLE"
    BY <1>5, <1>8, <1>11
  <2>2. CASE x \in StaleOcc(t)
    <3>1. \A r \in Reservations : ~Uses(res, r, x)
      BY <1>2, <1>7, <2>2 DEF Fit
    <3>2. \A r \in Reservations : ~(R2[r].status \in Active /\ R2[r].slot = x)
      BY <1>9, <3>1 DEF Uses
    <3>3. O2[x].status = "RELEASED"
      BY <1>4, <2>2
    <3>4. QED BY <1>10, <2>1, <3>2, <3>3 DEF Fit, Active
  <2>3. CASE \E r \in StaleRes(t) : res[r].slot = x
    <3>1. PICK r \in StaleRes(t) : res[r].slot = x
      BY <2>3
    <3>2. r \in Reservations /\ Uses(res, r, x)
      BY <1>6, <3>1 DEF Uses, Active
    <3>3. \A q \in Reservations : ~(R2[q].status \in Active /\ R2[q].slot = x)
      BY <1>2, <1>9, <3>2 DEF Uses, Fit
    <3>4. occ[x].status \notin {"PENDING_PAYMENT", "CONFIRMED"}
      BY <1>2, <3>2 DEF Fit
    <3>5. O2[x].status \notin {"PENDING_PAYMENT", "CONFIRMED"}
      BY <1>4, <3>4
    <3>6. QED BY <1>10, <2>1, <3>3, <3>5 DEF Fit, Active
  <2>4. QED BY <1>8, <1>11, <2>2, <2>3
<1>12. CASE x \notin Freed(t)
  <2>1. x \notin StaleOcc(t)
    BY <1>2, <1>7, <1>8, <1>12 DEF Fit
  <2>2. \A r \in StaleRes(t) : res[r].slot # x
    BY <1>2, <1>6, <1>8, <1>12 DEF Fit
  <2>3. O2[x].status = occ[x].status /\ S2[x].status = slot[x].status
    BY <1>4, <1>5, <1>12, <2>1
  <2>4. \A r \in Reservations : R2[r].slot = x => R2[r].status = res[r].status /\ res[r].slot = x
    BY <1>3, <2>2
  <2>5. \A r \in Reservations : res[r].slot = x => R2[r].status = res[r].status /\ R2[r].slot = x
    BY <1>3, <2>2
  <2>6. QED BY <1>2, <1>10, <2>3, <2>4, <2>5 DEF Fit
<1>13. QED BY <1>11, <1>12


-----------------------------------------------------------------------------
(* The changes of the tables. *)

\* A change of statuses that keeps every row's slot, on rows that exist.
LEMMA SoundSame ==
  ASSUME NEW S, NEW R, NEW O, NEW S2, NEW R2, NEW O2, Sound(S, R, O), Tables(S2, R2, O2),
         SlotMoves(S, S2),
         \A x \in Slots :
           /\ O2[x].status # "NONE" => O[x].status # "NONE" /\ O2[x].of = O[x].of
           /\ O[x].status = "CONFIRMED" => O2[x].status = "CONFIRMED",
         \A r \in Reservations :
           /\ R[r].status \notin {"NONE", "PENDING"} => R2[r].status \notin {"NONE", "PENDING"}
           /\ R2[r].status # "NONE" => R[r].status # "NONE"
           /\ R2[r].slot = R[r].slot
  PROVE  Sound(S2, R2, O2)
BY TiedSame, WeeksSame DEF Sound

\* A payment confirms a reservation.
LEMMA ConfirmRes ==
  ASSUME NEW S, NEW R, NEW O, Sound(S, R, O), NEW r \in Reservations, R[r].status = "PENDING"
  PROVE  LET S2 == WithStatus(S, R[r].slot, "RESERVED")
             R2 == WithStatus(R, r, "CONFIRMED")
         IN /\ Sound(S2, R2, O) /\ Moves({r}, S, R, O, S2, R2, O)
            /\ Fits(S, R, O) => Fits(S2, R2, O)
<1> DEFINE x == R[r].slot  S2 == WithStatus(S, x, "RESERVED")  R2 == WithStatus(R, r, "CONFIRMED")
<1>1. Tables(S, R, O) /\ x \in Slots /\ S[x].status # "NONE"
  BY DEF Sound, Tied
<1>2. /\ S2 \in [Slots -> SlotRow]
      /\ \A z \in Slots : /\ S2[z].status = IF z = x THEN "RESERVED" ELSE S[z].status
                          /\ S2[z].lane = S[z].lane /\ S2[z].week = S[z].week
  BY <1>1, SlotRows DEF Tables, SlotStatus
<1>3. /\ R2 \in [Reservations -> ResRow]
      /\ \A z \in Reservations :
           /\ R2[z].status = IF z = r THEN "CONFIRMED" ELSE R[z].status
           /\ R2[z].slot = R[z].slot /\ R2[z].type = R[z].type
           /\ R2[z].expires = R[z].expires /\ R2[z].charged = R[z].charged
           /\ z # r => R2[z] = R[z]
  BY <1>1, ResRows DEF Tables, ResStatus
<1> HIDE DEF S2, R2
<1>4. SlotMoves(S, S2)
  BY <1>1, <1>2 DEF SlotMoves
<1>5. Sound(S2, R2, O)
  BY <1>1, <1>2, <1>3, <1>4, SoundSame DEF Tables
<1>6. ResMoves({r}, R, R2)
  BY <1>3 DEF ResMoves, Active, Settled
<1>7. OccMoves({r}, S, O, O)
  BY DEF OccMoves
<1>8. ASSUME Fits(S, R, O) PROVE Fits(S2, R2, O)
  <2>1. ASSUME NEW z \in Slots PROVE Fit(S2, R2, O, z)
    <3>1. Fit(S, R, O, z)
      BY <1>8 DEF Fits
    <3>2. CASE z = x
      BY <1>1, <1>2, <1>3, <3>1, <3>2 DEF Fit, Uses, Active
    <3>3. CASE z # x
      BY <1>2, <1>3, <3>1, <3>3 DEF Fit, Uses, Active
    <3>4. QED BY <3>2, <3>3
  <2>2. QED BY <2>1 DEF Fits
<1>9. QED BY <1>4, <1>5, <1>6, <1>7, <1>8 DEF Moves, S2, R2

\* ... or an occurrence.
LEMMA ConfirmOcc ==
  ASSUME NEW S, NEW R, NEW O, Sound(S, R, O), NEW x \in Slots, O[x].status = "PENDING_PAYMENT"
  PROVE  LET S2 == WithStatus(S, x, "RESERVED")
             O2 == WithStatus(O, x, "CONFIRMED")
         IN /\ Sound(S2, R, O2) /\ Moves({x}, S, R, O, S2, R, O2)
            /\ Fits(S, R, O) => Fits(S2, R, O2)
<1> DEFINE S2 == WithStatus(S, x, "RESERVED")  O2 == WithStatus(O, x, "CONFIRMED")
<1>1. Tables(S, R, O) /\ S[x].status # "NONE"
  BY DEF Sound, Tied
<1>2. /\ S2 \in [Slots -> SlotRow]
      /\ \A z \in Slots : /\ S2[z].status = IF z = x THEN "RESERVED" ELSE S[z].status
                          /\ S2[z].lane = S[z].lane /\ S2[z].week = S[z].week
  BY <1>1, SlotRows DEF Tables, SlotStatus
<1>3. /\ O2 \in [Slots -> OccRow]
      /\ \A z \in Slots : /\ O2[z].status = IF z = x THEN "CONFIRMED" ELSE O[z].status
                          /\ O2[z].of = O[z].of
                          /\ z # x => O2[z] = O[z]
  BY <1>1, OccRows DEF Tables, OccStatus
<1> HIDE DEF S2, O2
<1>4. SlotMoves(S, S2)
  BY <1>1, <1>2 DEF SlotMoves
<1>5. Sound(S2, R, O2)
  BY <1>1, <1>2, <1>3, <1>4, SoundSame DEF Tables
<1>6. ResMoves({x}, R, R)
  BY DEF ResMoves, Active, Settled
<1>7. OccMoves({x}, S, O, O2)
  BY <1>3 DEF OccMoves
<1>8. ASSUME Fits(S, R, O) PROVE Fits(S2, R, O2)
  BY <1>2, <1>3, <1>8 DEF Fits, Fit, Uses, Active
<1>9. QED BY <1>4, <1>5, <1>6, <1>7, <1>8 DEF Moves, S2, O2

\* A reservation is cancelled and its slot, if it had one, given back.
LEMMA CancelRes ==
  ASSUME NEW S, NEW R, NEW O, Sound(S, R, O), NEW r \in Reservations,
         R[r].status \notin {"NONE", "CONSUMED"}
  PROVE  LET R2 == WithStatus(R, r, "CANCELLED")
             S2 == IF R[r].status # "CANCELLED" /\ S[R[r].slot].status \in {"RESERVED", "HOLD"}
                   THEN WithStatus(S, R[r].slot, "AVAILABLE") ELSE S
         IN /\ Sound(S2, R2, O) /\ Moves({r}, S, R, O, S2, R2, O)
            /\ Fits(S, R, O) => Fits(S2, R2, O)
<1> DEFINE x == R[r].slot
           frees == R[r].status # "CANCELLED" /\ S[x].status \in {"RESERVED", "HOLD"}
           S2 == IF frees THEN WithStatus(S, x, "AVAILABLE") ELSE S
           R2 == WithStatus(R, r, "CANCELLED")
<1>1. Tables(S, R, O) /\ x \in Slots /\ S[x].status # "NONE"
  BY DEF Sound, Tied
<1>2. /\ S2 \in [Slots -> SlotRow]
      /\ \A z \in Slots : /\ S2[z].status = IF z = x /\ frees THEN "AVAILABLE" ELSE S[z].status
                          /\ S2[z].lane = S[z].lane /\ S2[z].week = S[z].week
  BY <1>1, SlotRows DEF Tables, SlotStatus
<1>3. /\ R2 \in [Reservations -> ResRow]
      /\ \A z \in Reservations :
           /\ R2[z].status = IF z = r THEN "CANCELLED" ELSE R[z].status
           /\ R2[z].slot = R[z].slot /\ R2[z].type = R[z].type
           /\ R2[z].expires = R[z].expires /\ R2[z].charged = R[z].charged
           /\ z # r => R2[z] = R[z]
  BY <1>1, ResRows DEF Tables, ResStatus
<1>a. R[r].status = "CANCELLED" => R2[r] = R[r]
  <2>1. R[r] \in ResRow /\ R2[r] \in ResRow
    BY <1>1, <1>3 DEF Tables
  <2>2. QED BY <1>3, <2>1 DEF ResRow
<1>b. R[r].status \in {"PENDING", "CONFIRMED", "CANCELLED"}
  BY <1>1 DEF Tables, ResRow, ResStatus
<1> HIDE DEF S2, R2
<1>4. SlotMoves(S, S2)
  BY <1>1, <1>2 DEF SlotMoves
<1>5. Sound(S2, R2, O)
  BY <1>1, <1>2, <1>3, <1>4, SoundSame DEF Tables
<1>6. ResMoves({r}, R, R2)
  BY <1>3, <1>a, <1>b DEF ResMoves, Active, Settled
<1>7. OccMoves({r}, S, O, O)
  BY DEF OccMoves
<1>8. ASSUME Fits(S, R, O) PROVE Fits(S2, R2, O)
  <2>1. ASSUME NEW z \in Slots PROVE Fit(S2, R2, O, z)
    <3>1. Fit(S, R, O, z)
      BY <1>8 DEF Fits
    <3>2. CASE z = x /\ R[r].status # "CANCELLED"
      <4>1. Uses(R, r, z)
        BY <1>b, <3>2 DEF Uses, Active
      <4>2. frees
        BY <1>b, <3>1, <3>2 DEF Fit
      <4>3. \A q \in Reservations : ~(R2[q].status \in Active /\ R2[q].slot = z)
        BY <1>3, <3>1, <4>1 DEF Fit, Uses, Active
      <4>4. O[z].status \notin {"PENDING_PAYMENT", "CONFIRMED"} /\ S2[z].status = "AVAILABLE"
        BY <1>2, <3>1, <3>2, <4>1, <4>2 DEF Fit
      <4>5. QED BY <4>3, <4>4 DEF Fit, Uses, Active
    <3>3. CASE z # x \/ R[r].status = "CANCELLED"
      <4>1. S2[z].status = S[z].status
        BY <1>2, <3>3
      <4>2. \A q \in Reservations : R2[q].slot = R[q].slot /\ (R[q].slot = z => R2[q].status = R[q].status)
        BY <1>3, <3>3
      <4>3. QED BY <3>1, <4>1, <4>2 DEF Fit, Uses
    <3>4. QED BY <3>2, <3>3
  <2>2. QED BY <2>1 DEF Fits
<1>9. QED BY <1>4, <1>5, <1>6, <1>7, <1>8 DEF Moves, S2, R2

\* A confirmed reservation is turned into an event.
LEMMA ConsumeRes ==
  ASSUME NEW S, NEW R, NEW O, Sound(S, R, O), NEW r \in Reservations, R[r].status = "CONFIRMED"
  PROVE  LET R2 == WithStatus(R, r, "CONSUMED")
         IN /\ Sound(S, R2, O) /\ Moves({r}, S, R, O, S, R2, O)
            /\ Fits(S, R, O) => Fits(S, R2, O)
<1> DEFINE R2 == WithStatus(R, r, "CONSUMED")
<1>1. Tables(S, R, O)
  BY DEF Sound
<1>3. /\ R2 \in [Reservations -> ResRow]
      /\ \A z \in Reservations :
           /\ R2[z].status = IF z = r THEN "CONSUMED" ELSE R[z].status
           /\ R2[z].slot = R[z].slot /\ R2[z].type = R[z].type
           /\ R2[z].expires = R[z].expires /\ R2[z].charged = R[z].charged
           /\ z # r => R2[z] = R[z]
  BY <1>1, ResRows DEF Tables, ResStatus
<1> HIDE DEF R2
<1>4. SlotMoves(S, S)
  BY DEF SlotMoves
<1>5. Sound(S, R2, O)
  BY <1>1, <1>3, <1>4, SoundSame DEF Tables
<1>6. ResMoves({r}, R, R2)
  BY <1>3 DEF ResMoves, Active, Settled
<1>7. OccMoves({r}, S, O, O)
  BY DEF OccMoves
<1>8. ASSUME Fits(S, R, O) PROVE Fits(S, R2, O)
  BY <1>3, <1>8 DEF Fits, Fit, Uses, Active
<1>9. QED BY <1>4, <1>5, <1>6, <1>7, <1>8 DEF Moves, R2

\* An event is cancelled: its slot is given back, whoever has it.
LEMMA CancelEv ==
  ASSUME NEW S, NEW R, NEW O, Sound(S, R, O), NEW r \in Reservations, R[r].status # "NONE"
  PROVE  LET S2 == WithStatus(S, R[r].slot, "AVAILABLE")
             R2 == IF R[r].status = "CONSUMED" THEN WithStatus(R, r, "CANCELLED") ELSE R
         IN /\ Sound(S2, R2, O) /\ Moves({r}, S, R, O, S2, R2, O)
            /\ Fits(S, R, O) /\ R[r].status = "CONSUMED" => Fits(S2, R2, O)
<1> DEFINE x == R[r].slot
           S2 == WithStatus(S, x, "AVAILABLE")
           R2 == IF R[r].status = "CONSUMED" THEN WithStatus(R, r, "CANCELLED") ELSE R
<1>1. Tables(S, R, O) /\ x \in Slots /\ S[x].status # "NONE"
  BY DEF Sound, Tied
<1>2. /\ S2 \in [Slots -> SlotRow]
      /\ \A z \in Slots : /\ S2[z].status = IF z = x THEN "AVAILABLE" ELSE S[z].status
                          /\ S2[z].lane = S[z].lane /\ S2[z].week = S[z].week
  BY <1>1, SlotRows DEF Tables, SlotStatus
<1>3. /\ R2 \in [Reservations -> ResRow]
      /\ \A z \in Reservations :
           /\ R2[z].status = IF z = r /\ R[r].status = "CONSUMED" THEN "CANCELLED" ELSE R[z].status
           /\ R2[z].slot = R[z].slot /\ R2[z].type = R[z].type
           /\ R2[z].expires = R[z].expires /\ R2[z].charged = R[z].charged
           /\ z # r \/ R[r].status # "CONSUMED" => R2[z] = R[z]
  BY <1>1, ResRows DEF Tables, ResStatus
<1> HIDE DEF S2, R2
<1>4. SlotMoves(S, S2)
  BY <1>1, <1>2 DEF SlotMoves
<1>5. Sound(S2, R2, O)
  BY <1>1, <1>2, <1>3, <1>4, SoundSame DEF Tables
<1>6. ResMoves({r}, R, R2)
  BY <1>3 DEF ResMoves, Active, Settled
<1>7. OccMoves({r}, S, O, O)
  BY DEF OccMoves
<1>8. ASSUME Fits(S, R, O), R[r].status = "CONSUMED" PROVE Fits(S2, R2, O)
  <2>1. ASSUME NEW z \in Slots PROVE Fit(S2, R2, O, z)
    <3>1. Fit(S, R, O, z)
      BY <1>8 DEF Fits
    <3>2. CASE z = x
      <4>1. Uses(R, r, z)
        BY <1>8, <3>2 DEF Uses, Active
      <4>2. \A q \in Reservations : ~(R2[q].status \in Active /\ R2[q].slot = z)
        BY <1>3, <1>8, <3>1, <4>1 DEF Fit, Uses, Active
      <4>3. O[z].status \notin {"PENDING_PAYMENT", "CONFIRMED"} /\ S2[z].status = "AVAILABLE"
        BY <1>2, <3>1, <3>2, <4>1 DEF Fit
      <4>4. QED BY <4>2, <4>3 DEF Fit, Uses, Active
    <3>3. CASE z # x
      <4>1. S2[z].status = S[z].status
        BY <1>2, <3>3
      <4>2. \A q \in Reservations : R2[q].slot = R[q].slot /\ (R[q].slot = z => R2[q].status = R[q].status)
        BY <1>3, <3>3
      <4>3. QED BY <3>1, <4>1, <4>2 DEF Fit, Uses
    <3>4. QED BY <3>2, <3>3
  <2>2. QED BY <2>1 DEF Fits
<1>9. QED BY <1>4, <1>5, <1>6, <1>7, <1>8 DEF Moves, S2, R2

\* A slot is inserted.
LEMMA NewSlot ==
  ASSUME NEW S, NEW R, NEW O, Sound(S, R, O), NEW y \in Slots, S[y].status = "NONE",
         NEW l \in Lanes, NEW w \in Nat
  PROVE  LET S2 == [S EXCEPT ![y] = [status |-> "AVAILABLE", lane |-> l, week |-> w]]
         IN /\ Sound(S2, R, O) /\ Moves({}, S, R, O, S2, R, O)
            /\ Fits(S, R, O) => Fits(S2, R, O)
<1> DEFINE S2 == [S EXCEPT ![y] = [status |-> "AVAILABLE", lane |-> l, week |-> w]]
<1>1. Tables(S, R, O) /\ Tied(S, R, O)
  BY DEF Sound
<1>2. S2 \in [Slots -> SlotRow] /\ S2[y].status = "AVAILABLE" /\ \A z \in Slots \ {y} : S2[z] = S[z]
  BY <1>1 DEF Tables, SlotRow, SlotStatus
<1> HIDE DEF S2
<1>3. SlotMoves(S, S2)
  BY <1>2 DEF SlotMoves
<1>4. Sound(S2, R, O)
  BY <1>1, <1>2, <1>3, SoundSame DEF Tables
<1>5. Moves({}, S, R, O, S2, R, O)
  BY <1>3 DEF Moves, ResMoves, OccMoves, Active, Settled
<1>6. ASSUME Fits(S, R, O) PROVE Fits(S2, R, O)
  BY <1>1, <1>2, <1>6 DEF Fits, Fit, Tied, Uses, Active
<1>7. QED BY <1>4, <1>5, <1>6 DEF S2

\* A reservation is inserted, on an AVAILABLE slot.
LEMMA NewRes ==
  ASSUME NEW S, NEW R, NEW O, Sound(S, R, O), NEW r \in Reservations, R[r].status = "NONE",
         NEW x \in Slots, S[x].status = "AVAILABLE", NEW row \in ResRow, row.slot = x,
         NEW st, \/ row.status = "PENDING" /\ st = "HOLD"
                 \/ row.status = "CONFIRMED" /\ st = "RESERVED"
  PROVE  LET S2 == WithStatus(S, x, st)
             R2 == [R EXCEPT ![r] = row]
         IN /\ Sound(S2, R2, O) /\ Moves({r}, S, R, O, S2, R2, O)
            /\ Fits(S, R, O) => Fits(S2, R2, O)
<1> DEFINE S2 == WithStatus(S, x, st)  R2 == [R EXCEPT ![r] = row]
<1>1. Tables(S, R, O) /\ Tied(S, R, O) /\ Weeks(S, R, O)
  BY DEF Sound
<1>2. /\ S2 \in [Slots -> SlotRow]
      /\ \A z \in Slots : /\ S2[z].status = IF z = x THEN st ELSE S[z].status
                          /\ S2[z].lane = S[z].lane /\ S2[z].week = S[z].week
  BY <1>1, SlotRows DEF Tables, SlotStatus
<1>3. R2 \in [Reservations -> ResRow] /\ R2[r] = row /\ \A z \in Reservations \ {r} : R2[z] = R[z]
  BY <1>1 DEF Tables
<1> HIDE DEF S2, R2
<1>4. SlotMoves(S, S2)
  BY <1>2 DEF SlotMoves
<1>5. Tied(S2, R2, O)
  BY <1>1, <1>3, <1>4, TiedSame
<1>6. Weeks(S2, R2, O)
  BY <1>1, <1>3, <1>4, WeeksSame
<1>7. ResMoves({r}, R, R2)
  BY <1>3 DEF ResMoves, Active, Settled
<1>8. OccMoves({r}, S, O, O)
  BY DEF OccMoves
<1>9. ASSUME Fits(S, R, O) PROVE Fits(S2, R2, O)
  <2>1. ASSUME NEW z \in Slots PROVE Fit(S2, R2, O, z)
    <3>1. Fit(S, R, O, z)
      BY <1>9 DEF Fits
    <3>2. CASE z = x
      <4>1. \A q \in Reservations : ~(R[q].status \in Active /\ R[q].slot = x)
        BY <1>1, <3>1, <3>2 DEF Fit, Active, Tables, ResRow, ResStatus
      <4>2. O[x].status \notin {"PENDING_PAYMENT", "CONFIRMED"}
        BY <3>1, <3>2 DEF Fit
      <4>3. \A q \in Reservations : R2[q].status \in Active /\ R2[q].slot = x => q = r
        BY <1>3, <4>1
      <4>4. S2[z].status = st /\ R2[r] = row
        BY <1>2, <1>3, <3>2
      <4>5. QED BY <3>2, <4>2, <4>3, <4>4 DEF Fit, Uses, Active
    <3>3. CASE z # x
      <4>1. S2[z].status = S[z].status
        BY <1>2, <3>3
      <4>2. \A q \in Reservations : /\ R2[q].status \in Active /\ R2[q].slot = z => R2[q] = R[q]
                                    /\ R[q].status \in Active /\ R[q].slot = z => R2[q] = R[q]
        BY <1>3, <3>3 DEF Active
      <4>3. QED BY <3>1, <4>1, <4>2 DEF Fit, Uses, Active
    <3>4. QED BY <3>2, <3>3
  <2>2. QED BY <2>1 DEF Fits
<1>10. QED BY <1>2, <1>3, <1>4, <1>5, <1>6, <1>7, <1>8, <1>9, <1>1 DEF Moves, Sound, Tables, S2, R2


\* Slot b is the last of reservation r's: its occurrences are paid, and the next
\* follows b.
Ready(S, R, O, r, b) ==
  /\ R[r].status \notin {"NONE", "PENDING"}
  /\ S[b].status # "NONE" /\ S[b].lane = S[R[r].slot].lane
  /\ b = R[r].slot \/ (O[b].status = "CONFIRMED" /\ O[b].of = r)
  /\ \A x \in Slots : O[x].status # "NONE" /\ O[x].of = r =>
       O[x].status = "CONFIRMED" /\ S[x].week <= S[b].week

\* The next occurrence and its slot are inserted.
LEMMA NewOcc ==
  ASSUME NEW S, NEW R, NEW O, Sound(S, R, O), NEW r \in Reservations, NEW b \in Slots,
         Ready(S, R, O, r, b), NEW y \in Slots, S[y].status = "NONE"
  PROVE  LET S2 == [S EXCEPT ![y] = [status |-> "HOLD", lane |-> S[b].lane,
                                     week |-> S[b].week + 1]]
             O2 == [O EXCEPT ![y] = [status |-> "PENDING_PAYMENT", of |-> r]]
         IN /\ Sound(S2, R, O2) /\ Moves({}, S, R, O, S2, R, O2)
            /\ Fits(S, R, O) => Fits(S2, R, O2)
<1> DEFINE S2 == [S EXCEPT ![y] = [status |-> "HOLD", lane |-> S[b].lane,
                                   week |-> S[b].week + 1]]
           O2 == [O EXCEPT ![y] = [status |-> "PENDING_PAYMENT", of |-> r]]
           own == R[r].slot
<1>1. Tables(S, R, O) /\ Tied(S, R, O) /\ Weeks(S, R, O)
  BY DEF Sound
<1>2. own \in Slots /\ S[own].status # "NONE" /\ own # y /\ b # y
  BY <1>1 DEF Ready, Tied
<1>3. O[y].status = "NONE" /\ \A q \in Reservations : R[q].status # "NONE" => R[q].slot # y
  BY <1>1 DEF Tied
<1>4. S[b].week \in Nat /\ S[b].lane \in Lanes \cup {NoLane}
  BY <1>1 DEF Tables, SlotRow
<1>5. /\ S2 \in [Slots -> SlotRow] /\ S2[y].status = "HOLD" /\ S2[y].lane = S[b].lane
      /\ S2[y].week = S[b].week + 1 /\ \A z \in Slots \ {y} : S2[z] = S[z]
  BY <1>1, <1>4 DEF Tables, SlotRow, SlotStatus
<1>6. /\ O2 \in [Slots -> OccRow] /\ O2[y].status = "PENDING_PAYMENT" /\ O2[y].of = r
      /\ \A z \in Slots \ {y} : O2[z] = O[z]
  BY <1>1 DEF Tables, OccRow, OccStatus
<1> HIDE DEF S2, O2
<1>7. SlotMoves(S, S2)
  BY <1>5 DEF SlotMoves
<1>8. Tied(S2, R, O2)
  BY <1>1, <1>2, <1>5, <1>6 DEF Tied, Ready
<1>9. \A x \in Slots : S[x].week \in Nat
  BY <1>1 DEF Tables, SlotRow
<1>10. ASSUME NEW x \in Slots, NEW z \in Slots, O2[x].status # "NONE", O2[z].status # "NONE",
              O2[x].of = O2[z].of, x # z
       PROVE  S2[x].week # S2[z].week /\ (O2[x].status # "CONFIRMED" => S2[z].week < S2[x].week)
  <2>1. CASE x = y
    <3>1. O[z].status # "NONE" /\ O[z].of = r /\ S2[z] = S[z]
      BY <1>5, <1>6, <1>10, <2>1
    <3>2. S[z].week <= S[b].week
      BY <3>1 DEF Ready
    <3>3. QED BY <1>4, <1>5, <1>9, <2>1, <3>1, <3>2
  <2>2. CASE z = y
    <3>1. O[x].status # "NONE" /\ O[x].of = r /\ S2[x] = S[x] /\ O2[x] = O[x]
      BY <1>5, <1>6, <1>10, <2>2
    <3>2. S[x].week <= S[b].week /\ O[x].status = "CONFIRMED"
      BY <3>1 DEF Ready
    <3>3. QED BY <1>4, <1>5, <1>9, <2>2, <3>1, <3>2
  <2>3. CASE x # y /\ z # y
    <3>1. O2[x] = O[x] /\ O2[z] = O[z] /\ S2[x] = S[x] /\ S2[z] = S[z]
      BY <1>5, <1>6, <2>3
    <3>2. QED BY <1>1, <1>10, <3>1 DEF Weeks
  <2>4. QED BY <2>1, <2>2, <2>3
<1>11. ASSUME NEW x \in Slots, O2[x].status # "NONE"
       PROVE  /\ S2[x].lane = S2[R[O2[x].of].slot].lane
              /\ S2[x].week > S2[R[O2[x].of].slot].week
              /\ S2[x].week > S2[R[O2[x].of].slot].week + 1 =>
                   \E z \in Slots : /\ O2[z].status = "CONFIRMED" /\ O2[z].of = O2[x].of
                                    /\ S2[z].week = S2[x].week - 1
  <2>1. CASE x = y
    <3>1. S2[own] = S[own] /\ O2[x].of = r
      BY <1>2, <1>5, <1>6, <2>1
    <3>2. S2[x].lane = S2[own].lane
      BY <1>5, <2>1, <3>1 DEF Ready
    <3>3. CASE b = own
      BY <1>5, <1>9, <1>2, <2>1, <3>1, <3>2, <3>3
    <3>4. CASE O[b].status = "CONFIRMED" /\ O[b].of = r
      <4>1. S[b].week > S[own].week
        BY <1>1, <3>4 DEF Weeks
      <4>2. O2[b] = O[b] /\ S2[b] = S[b]
        BY <1>2, <1>5, <1>6
      <4>3. S2[x].week > S2[own].week /\ S2[b].week = S2[x].week - 1
        BY <1>2, <1>5, <1>9, <2>1, <3>1, <4>1, <4>2
      <4>4. QED BY <3>1, <3>2, <3>4, <4>2, <4>3
    <3>5. QED BY <3>3, <3>4 DEF Ready
  <2>2. CASE x # y
    <3>1. O2[x] = O[x] /\ S2[x] = S[x] /\ O[x].of \in Reservations
      BY <1>1, <1>5, <1>6, <1>11, <2>2 DEF Tied
    <3>2. R[O[x].of].slot \in Slots /\ R[O[x].of].slot # y
      BY <1>1, <1>3, <1>11, <3>1 DEF Tied
    <3>3. S2[R[O[x].of].slot] = S[R[O[x].of].slot]
      BY <1>5, <3>2
    <3>4. \A z \in Slots : O[z].status = "CONFIRMED" => O2[z] = O[z] /\ S2[z] = S[z]
      BY <1>3, <1>5, <1>6
    <3>5. /\ S[x].lane = S[R[O[x].of].slot].lane
          /\ S[x].week > S[R[O[x].of].slot].week
          /\ S[x].week > S[R[O[x].of].slot].week + 1 =>
               \E z \in Slots : /\ O[z].status = "CONFIRMED" /\ O[z].of = O[x].of
                                /\ S[z].week = S[x].week - 1
      BY <1>1, <1>11, <3>1 DEF Weeks
    <3>6. QED BY <3>1, <3>3, <3>4, <3>5
  <2>3. QED BY <2>1, <2>2
<1>12. Weeks(S2, R, O2)
  BY <1>10, <1>11 DEF Weeks
<1>13. Moves({}, S, R, O, S2, R, O2)
  <2>1. ResMoves({}, R, R)
    BY DEF ResMoves, Active, Settled
  <2>2. OccMoves({}, S, O, O2)
    BY <1>3, <1>6 DEF OccMoves
  <2>3. QED BY <1>7, <2>1, <2>2 DEF Moves
<1>14. ASSUME Fits(S, R, O) PROVE Fits(S2, R, O2)
  <2>1. ASSUME NEW z \in Slots PROVE Fit(S2, R, O2, z)
    <3>1. Fit(S, R, O, z)
      BY <1>14 DEF Fits
    <3>2. CASE z = y
      <4>1. \A q \in Reservations : ~(R[q].status \in Active /\ R[q].slot = z)
        BY <1>3, <3>2 DEF Active
      <4>2. QED BY <1>5, <1>6, <3>2, <4>1 DEF Fit, Uses, Active
    <3>3. CASE z # y
      BY <1>5, <1>6, <3>1, <3>3 DEF Fit
    <3>4. QED BY <3>2, <3>3
  <2>2. QED BY <2>1 DEF Fits
<1>15. Sound(S2, R, O2)
  BY <1>1, <1>5, <1>6, <1>8, <1>12 DEF Sound, Tables
<1>16. QED BY <1>13, <1>14, <1>15 DEF S2, O2

LEMMA GeneratedStep ==
  ASSUME NEW S, NEW R, NEW O, Sound(S, R, O), NEW r \in Reservations, NEW b \in Slots,
         Ready(S, R, O, r, b), slot[b].lane = S[b].lane, slot[b].week = S[b].week,
         NEW free, Generated(free, S, O, r, b)
  PROVE  /\ Sound(slot', R, occ') /\ Moves({}, S, R, O, slot', R, occ')
         /\ Fits(S, R, O) => Fits(slot', R, occ')
<1>1. CASE Generates(free, O, r, slot[b].week + 1)
  <2>1. PICK y \in Slots :
          /\ S[y].status = "NONE"
          /\ slot' = [S EXCEPT ![y] = [status |-> "HOLD", lane |-> S[b].lane,
                                       week |-> S[b].week + 1]]
          /\ occ' = [O EXCEPT ![y] = [status |-> "PENDING_PAYMENT", of |-> r]]
    BY <1>1 DEF Generated
  <2>2. QED BY <2>1, NewOcc
<1>2. CASE ~Generates(free, O, r, slot[b].week + 1)
  <2>1. slot' = S /\ occ' = O
    BY <1>2 DEF Generated
  <2>2. QED BY <2>1, NoMove
<1>3. QED BY <1>1, <1>2


-----------------------------------------------------------------------------
(* The inductive invariant. *)

\* What a request works on exists, and its transaction began in the past.
SessShape ==
  \A s \in Sessions :
    /\ sess[s].began <= now
    /\ sess[s].op = "reserve" => sess[s].target \in Slots
    /\ sess[s].op \in {"cancel", "cancelEvent"} =>
         sess[s].target \in Reservations /\ res[sess[s].target].status # "NONE"
    /\ sess[s].op \in {"pay", "hook"} => sess[s].target \in Contexts
    /\ sess[s].op = "slot" => sess[s].target \in Cells

\* PaidIsConfirmed and EventOnReservation, row by row.
ResAgrees(r) ==
  /\ res[r].status = "NONE" => payment[r] = "NONE"
  /\ payment[r] = "PAID" => res[r].status \in {"CONFIRMED", "CONSUMED", "CANCELLED"}
  /\ res[r].charged /\ res[r].status \in Settled => payment[r] = "PAID"
  /\ event[r] = "LIVE" <=> res[r].status = "CONSUMED"
OccAgrees(x) ==
  /\ occ[x].status = "NONE" => payment[x] = "NONE"
  /\ payment[x] = "PAID" <=> occ[x].status = "CONFIRMED"
Agree == (\A r \in Reservations : ResAgrees(r)) /\ (\A x \in Slots : OccAgrees(x))

AInv ==
  /\ TypeOK /\ Tied(slot, res, occ) /\ Weeks(slot, res, occ)
  /\ SessShape /\ Agree

\* What cancelEvent would be sure of if it read the event again under a lock: it
\* cancels no event that has been cancelled since its Start.
CancelsLive ==
  \A s \in Sessions : CancelEvent(s) => event[sess[s].target] = "LIVE"

\* What a step does to the tables, about the rows in C.
Effect(C) ==
  /\ Sound(slot', res', occ') /\ Moves(C, slot, res, occ, slot', res', occ')
  /\ Fits(slot, res, occ) /\ CancelsLive => Fits(slot', res', occ')
  /\ \A x \in Slots : occ'[x].status = "RELEASED" =>
       \/ occ[x].status = "RELEASED"
       \/ occ[x].status = "PENDING_PAYMENT" /\ Due(x) <= now

LEMMA InvSound ==
  ASSUME AInv
  PROVE  Sound(slot, res, occ)
BY DEF AInv, TypeOK, Sound, Tables

LEMMA InvAfter ==
  ASSUME Sound(slot', res', occ'), now' \in Nat, policy' \in Policy,
         payment' \in [Contexts -> PaymentStatus], event' \in [Reservations -> EventStatus],
         sess' \in [Sessions -> Session], SessShape', Agree'
  PROVE  AInv'
BY DEF AInv, TypeOK, Sound, Tables

\* Rows of payments and events that do not change agree with what does.
LEMMA Agreement ==
  ASSUME Agree, NEW C, Moves(C, slot, res, occ, slot', res', occ'),
         \A c \in Contexts \ C : payment'[c] = payment[c],
         \A r \in Reservations \ C : event'[r] = event[r],
         \A r \in Reservations \cap C : ResAgrees(r)',
         \A x \in Slots \cap C : OccAgrees(x)'
  PROVE  Agree'
<1>1. ASSUME NEW r \in Reservations, r \notin C PROVE ResAgrees(r)'
  <2>1. ResAgrees(r) /\ payment'[r] = payment[r] /\ event'[r] = event[r]
    BY <1>1 DEF Agree, Contexts
  <2>2. /\ res'[r].status = "NONE" => res[r].status = "NONE"
        /\ res[r].status # "NONE" => res'[r].charged = res[r].charged
        /\ res[r].status = "CANCELLED" => res'[r] = res[r]
        /\ res'[r].status \in Settled => res[r].status \in Settled
        /\ res[r].status \in Settled => res'[r].status \in Settled \cup {"CANCELLED"}
        /\ res'[r].status = "CONSUMED" <=> res[r].status = "CONSUMED"
    BY <1>1 DEF Moves, ResMoves
  <2>3. QED BY <2>1, <2>2 DEF ResAgrees, Settled
<1>2. ASSUME NEW x \in Slots, x \notin C PROVE OccAgrees(x)'
  <2>1. OccAgrees(x) /\ payment'[x] = payment[x]
    BY <1>2 DEF Agree, Contexts
  <2>2. /\ occ'[x].status = "NONE" => occ[x].status = "NONE"
        /\ occ'[x].status = "CONFIRMED" => occ[x].status = "CONFIRMED"
        /\ occ[x].status = "CONFIRMED" => occ'[x] = occ[x]
    BY <1>2 DEF Moves, OccMoves
  <2>3. QED BY <2>1, <2>2 DEF OccAgrees
<1>3. QED BY <1>1, <1>2 DEF Agree

\* A request that goes on or ends.
LEMMA OneSession ==
  ASSUME AInv, NEW s \in Sessions, NEW n \in Session, Become(s, n), now' = now,
         \A r \in Reservations : res[r].status # "NONE" => res'[r].status # "NONE",
         n = IdleSession \/ (/\ n.began = sess[s].began /\ n.op = sess[s].op
                             /\ n.target = sess[s].target)
  PROVE  sess' \in [Sessions -> Session] /\ SessShape'
<1>1. sess' \in [Sessions -> Session] /\ sess'[s] = n /\ \A t \in Sessions \ {s} : sess'[t] = sess[t]
  BY DEF AInv, TypeOK, Become
<1>2. SessShape /\ now \in Nat
  BY DEF AInv, TypeOK
<1>3. \A t \in Sessions \ {s} :
        /\ sess'[t].began <= now'
        /\ sess'[t].op = "reserve" => sess'[t].target \in Slots
        /\ sess'[t].op \in {"cancel", "cancelEvent"} =>
             sess'[t].target \in Reservations /\ res'[sess'[t].target].status # "NONE"
        /\ sess'[t].op \in {"pay", "hook"} => sess'[t].target \in Contexts
        /\ sess'[t].op = "slot" => sess'[t].target \in Cells
  BY <1>1, <1>2 DEF SessShape
<1>4. CASE n = IdleSession
  <2>1. n.began = 0 /\ n.op = "none"
    BY <1>4 DEF IdleSession
  <2>2. QED BY <1>1, <1>2, <1>3, <2>1 DEF SessShape
<1>5. CASE n.began = sess[s].began /\ n.op = sess[s].op /\ n.target = sess[s].target
  BY <1>1, <1>2, <1>3, <1>5 DEF SessShape
<1>6. QED BY <1>4, <1>5

LEMMA IdleIsSession == IdleSession \in Session
BY DEF IdleSession, Session, Type

\* A transaction that ends its request and leaves payments and events alone.
LEMMA EndedTx ==
  ASSUME AInv, NEW s \in Sessions, NEW n \in Session, Become(s, n),
         n = IdleSession \/ (/\ n.began = sess[s].began /\ n.op = sess[s].op
                             /\ n.target = sess[s].target),
         Effect({}), UNCHANGED <<now, policy, payment, event>>
  PROVE  AInv'
<1>1. \A r \in Reservations : res[r].status # "NONE" => res'[r].status # "NONE"
  BY DEF Effect, Moves, ResMoves
<1>2. sess' \in [Sessions -> Session] /\ SessShape'
  BY <1>1, OneSession
<1>3. Agree'
  BY Agreement DEF Effect, AInv
<1>4. QED BY <1>2, <1>3, InvAfter DEF Effect, AInv, TypeOK


\* ... and one that changes the payment or the event of the rows in C.
LEMMA ChangedTx ==
  ASSUME AInv, NEW s \in Sessions, Finish(s), NEW C, Effect(C), UNCHANGED <<now, policy>>,
         payment' \in [Contexts -> PaymentStatus], event' \in [Reservations -> EventStatus],
         \A c \in Contexts \ C : payment'[c] = payment[c],
         \A r \in Reservations \ C : event'[r] = event[r],
         \A r \in Reservations \cap C : ResAgrees(r)',
         \A x \in Slots \cap C : OccAgrees(x)'
  PROVE  AInv'
<1>1. \A r \in Reservations : res[r].status # "NONE" => res'[r].status # "NONE"
  BY DEF Effect, Moves, ResMoves
<1>2. sess' \in [Sessions -> Session] /\ SessShape'
  BY <1>1, OneSession, IdleIsSession DEF Finish
<1>3. Agree'
  BY Agreement DEF Effect, AInv
<1>4. QED BY <1>2, <1>3, InvAfter DEF Effect, AInv, TypeOK

LEMMA UnchangedEffect ==
  ASSUME AInv, UNCHANGED <<slot, res, occ>>
  PROVE  Effect({})
BY InvSound, NoMove DEF Effect

\* The maintenance of a transaction that began at t.
LEMMA MaintEffect ==
  ASSUME AInv, NEW s \in Sessions
  PROVE  LET t == sess[s].began
         IN /\ Sound(SlotAt(t), ResAt(t), OccAt(t))
            /\ Moves({}, slot, res, occ, SlotAt(t), ResAt(t), OccAt(t))
            /\ Fits(slot, res, occ) => Fits(SlotAt(t), ResAt(t), OccAt(t))
            /\ \A x \in Slots : OccAt(t)[x].status = "RELEASED" =>
                 \/ occ[x].status = "RELEASED"
                 \/ occ[x].status = "PENDING_PAYMENT" /\ Due(x) <= now
<1> DEFINE t == sess[s].began
<1>1. Sound(slot, res, occ) /\ Tables(slot, res, occ)
  BY InvSound DEF Sound
<1>2. t \in Nat /\ t <= now /\ now \in Nat
  BY DEF AInv, TypeOK, SessShape, Session
<1>3. ASSUME NEW x \in Slots, OccAt(t)[x].status = "RELEASED", occ[x].status # "RELEASED"
      PROVE  occ[x].status = "PENDING_PAYMENT" /\ Due(x) <= now
  <2>1. x \in StaleOcc(t) /\ occ[x].status = "PENDING_PAYMENT"
    BY <1>1, <1>3, MaintRows DEF StaleOcc
  <2>2. slot[x].week \in Nat
    BY <1>1 DEF Tables, SlotRow
  <2>3. Due(x) \in Int /\ Due(x) <= t
    BY <2>1, <2>2, NumbersAssumption DEF StaleOcc, Due, StartOf
  <2>4. QED BY <1>2, <2>1, <2>3
<1>4. QED BY <1>1, <1>3, MaintSound, MaintMoves, MaintFits

\* A transaction that does its maintenance and then changes the tables.
LEMMA TwoEffects ==
  ASSUME AInv, NEW s \in Sessions, NEW C, Sound(slot', res', occ'),
         Moves(C, SlotAt(sess[s].began), ResAt(sess[s].began), OccAt(sess[s].began),
               slot', res', occ'),
         Fits(SlotAt(sess[s].began), ResAt(sess[s].began), OccAt(sess[s].began)) =>
           Fits(slot', res', occ'),
         \A x \in Slots : occ'[x].status = "RELEASED" => OccAt(sess[s].began)[x].status = "RELEASED"
  PROVE  Effect(C)
<1>1. Moves({} \cup C, slot, res, occ, slot', res', occ')
  BY MaintEffect, TwoMoves
<1>2. {} \cup C = C
  OBVIOUS
<1>3. QED BY <1>1, <1>2, MaintEffect DEF Effect

LEMMA Released ==
  ASSUME NEW free, NEW S, NEW O, O \in [Slots -> OccRow], NEW r, NEW b, Generated(free, S, O, r, b)
  PROVE  \A x \in Slots : occ'[x].status = "RELEASED" => O[x].status = "RELEASED"
BY DEF Generated

-----------------------------------------------------------------------------
(* The actions. *)

LEMMA AbandonStep ==
  ASSUME AInv, NEW s \in Sessions, Abandon(s)
  PROVE  AInv' /\ Effect({})
<1>1. UNCHANGED <<now, policy, slot, res, occ, payment, event>> /\ Become(s, IdleSession)
  BY DEF Abandon, tables, Finish
<1>2. Effect({})
  BY <1>1, UnchangedEffect
<1>3. QED BY <1>1, <1>2, EndedTx, IdleIsSession

LEMMA StartStep ==
  ASSUME AInv, NEW s \in Sessions, NEW op, NEW phase, NEW target, NEW type,
         Start(s, op, phase, target, type),
         phase \in {"maintain", "look", "body"}, type \in Type,
         target \in Contexts \cup Cells \cup {NoTarget},
         op = "reserve" => target \in Slots,
         op \in {"cancel", "cancelEvent"} => target \in Reservations /\ res[target].status # "NONE",
         op \in {"pay", "hook"} => target \in Contexts,
         op = "slot" => target \in Cells
  PROVE  AInv' /\ Effect({})
<1> DEFINE n == [IdleSession EXCEPT !.op = op, !.phase = phase, !.target = target,
                                    !.type = type, !.began = now]
<1>1. UNCHANGED <<now, policy, slot, res, occ, payment, event>> /\ Become(s, n) /\ op \in Op
  BY ChoicesAssumption DEF Start, tables
<1>2. now \in Nat /\ sess \in [Sessions -> Session] /\ SessShape
  BY DEF AInv, TypeOK
<1>3. n \in Session /\ n.op = op /\ n.target = target /\ n.began = now
  BY <1>1, <1>2 DEF IdleSession, Session
<1> HIDE DEF n
<1>4. sess' \in [Sessions -> Session] /\ sess'[s] = n /\ \A t \in Sessions \ {s} : sess'[t] = sess[t]
  BY <1>1, <1>2, <1>3 DEF Become
<1>5. SessShape'
  <2>1. ASSUME NEW t \in Sessions
        PROVE  /\ sess'[t].began <= now'
               /\ sess'[t].op = "reserve" => sess'[t].target \in Slots
               /\ sess'[t].op \in {"cancel", "cancelEvent"} =>
                    sess'[t].target \in Reservations /\ res'[sess'[t].target].status # "NONE"
               /\ sess'[t].op \in {"pay", "hook"} => sess'[t].target \in Contexts
               /\ sess'[t].op = "slot" => sess'[t].target \in Cells
    <3>1. CASE t = s
      BY <1>1, <1>2, <1>3, <1>4, <3>1
    <3>2. CASE t # s
      BY <1>1, <1>2, <1>4, <3>2 DEF SessShape
    <3>3. QED BY <3>1, <3>2
  <2>2. QED BY <2>1 DEF SessShape
<1>6. Effect({})
  BY <1>1, UnchangedEffect
<1>7. Agree'
  BY <1>1, <1>6, Agreement DEF Effect, AInv
<1>8. QED BY <1>1, <1>4, <1>5, <1>6, <1>7, InvAfter DEF Effect, AInv, TypeOK

LEMMA ArriveStep ==
  ASSUME AInv, NEW s \in Sessions, Arrive(s)
  PROVE  AInv' /\ Effect({})
<1>0. "SINGLE" \in Type
  BY DEF Type
<1>1. CASE StartList(s)
  BY <1>0, <1>1, StartStep DEF StartList
<1>2. ASSUME NEW x \in Slots, NEW type \in Type, StartReserve(s, x, type)
      PROVE  AInv' /\ Effect({})
  BY <1>2, StartStep DEF StartReserve, Contexts
<1>3. ASSUME NEW r \in Reservations, StartCancel(s, r)
      PROVE  AInv' /\ Effect({})
  BY <1>0, <1>3, StartStep DEF StartCancel, Contexts
<1>4. ASSUME NEW r \in Reservations, StartCancelEvent(s, r)
      PROVE  AInv' /\ Effect({})
  <2>1. res[r].status # "NONE"
    BY <1>4 DEF StartCancelEvent, AInv, Agree, ResAgrees
  <2>2. QED BY <1>0, <1>4, <2>1, StartStep DEF StartCancelEvent, Contexts
<1>5. ASSUME NEW c \in Contexts, StartPay(s, c)
      PROVE  AInv' /\ Effect({})
  BY <1>0, <1>5, StartStep DEF StartPay
<1>6. ASSUME NEW c \in Contexts, StartHook(s, c)
      PROVE  AInv' /\ Effect({})
  <2>1. PICK phase \in {"body", "look"} : Start(s, "hook", phase, c, "SINGLE")
    BY <1>6 DEF StartHook
  <2>2. QED BY <1>0, <2>1, StartStep
<1>7. ASSUME NEW cell \in NewCells, StartSlot(s, cell)
      PROVE  AInv' /\ Effect({})
  BY <1>0, <1>7, StartStep, ChoicesAssumption DEF StartSlot, Cells
<1>8. QED BY <1>1, <1>2, <1>3, <1>4, <1>5, <1>6, <1>7 DEF Arrive

LEMMA AfterMaint ==
  ASSUME AInv, NEW s \in Sessions, AfterMaintenance(s), Effect({}),
         UNCHANGED <<now, policy, payment, event>>
  PROVE  AInv'
<1>1. CASE sess[s].op = "list"
  BY <1>1, EndedTx, IdleIsSession DEF AfterMaintenance, Finish
<1>2. CASE sess[s].op # "list"
  <2> DEFINE n == [sess[s] EXCEPT !.phase = "body"]
  <2>1. Become(s, n)
    BY <1>2 DEF AfterMaintenance
  <2>2. n \in Session /\ n.began = sess[s].began /\ n.op = sess[s].op /\ n.target = sess[s].target
    BY DEF AInv, TypeOK, Session
  <2>3. QED BY <2>1, <2>2, EndedTx
<1>3. QED BY <1>1, <1>2

LEMMA MaintainStep ==
  ASSUME AInv, NEW s \in Sessions, Maintain(s) \/ MaintainFails(s)
  PROVE  AInv' /\ Effect({})
<1>1. CASE Maintain(s)
  <2>1. Effect({})
    BY <1>1, MaintEffect DEF Maintain, Maintained, Effect
  <2>2. QED BY <1>1, <2>1, AfterMaint DEF Maintain
<1>2. CASE MaintainFails(s)
  <2>1. UNCHANGED <<now, policy, slot, res, occ, payment, event>> /\ AfterMaintenance(s)
    BY <1>2 DEF MaintainFails, tables
  <2>2. QED BY <2>1, UnchangedEffect, AfterMaint
<1>3. QED BY <1>1, <1>2

LEMMA LookStep ==
  ASSUME AInv, NEW s \in Sessions, Look(s)
  PROVE  AInv' /\ Effect({})
<1>1. PICK free \in BOOLEAN : Become(s, [sess[s] EXCEPT !.phase = "body", !.free = free])
  BY DEF Look
<1> DEFINE n == [sess[s] EXCEPT !.phase = "body", !.free = free]
<1>2. n \in Session /\ n.began = sess[s].began /\ n.op = sess[s].op /\ n.target = sess[s].target
  BY DEF AInv, TypeOK, Session
<1>3. UNCHANGED <<now, policy, slot, res, occ, payment, event>>
  BY DEF Look, tables
<1>4. Effect({})
  BY <1>3, UnchangedEffect
<1>5. QED BY <1>1, <1>2, <1>3, <1>4, EndedTx

LEMMA CreateSlotStep ==
  ASSUME AInv, NEW s \in Sessions, NEW y \in Slots, CreateSlot(s, y)
  PROVE  AInv' /\ Effect({})
<1>1. sess[s].target \in Lanes \X (0 .. LastWeek)
  BY DEF CreateSlot, At, AInv, SessShape, Cells
<1>2. PICK l \in Lanes, w \in Nat : l = sess[s].target[1] /\ w = sess[s].target[2]
  BY <1>1, NumbersAssumption
<1>3. slot' = [slot EXCEPT ![y] = [status |-> "AVAILABLE", lane |-> l, week |-> w]]
  BY <1>2 DEF CreateSlot
<1>4. res' = res /\ occ' = occ /\ UNCHANGED <<now, policy, payment, event>> /\ slot[y].status = "NONE"
  BY DEF CreateSlot
<1>5. Effect({})
  BY <1>3, <1>4, InvSound, NewSlot DEF Effect
<1>6. QED BY <1>4, <1>5, EndedTx, IdleIsSession DEF CreateSlot, Finish


LEMMA ReserveStep ==
  ASSUME AInv, NEW s \in Sessions, NEW r \in Reservations, Reserve(s, r)
  PROVE  /\ AInv' /\ Effect({r}) /\ res[r].status = "NONE"
         /\ res'[r].status \in Active /\ slot[res'[r].slot].status = "AVAILABLE"
<1> DEFINE x == sess[s].target
           Row(st) == [status |-> st, slot |-> x, type |-> sess[s].type, expires |-> now + TTL,
                       charged |-> policy.charges]
           free == ~Blocked(<<slot[x].lane, slot[x].week + 1>>, AnyStatus)
<1>1. /\ x \in Slots /\ slot[x].status = "AVAILABLE" /\ res[r].status = "NONE"
      /\ Finish(s) /\ UNCHANGED <<now, policy, payment, event>>
  BY DEF Reserve, At, MayReserve, AInv, SessShape
<1>2. Row("PENDING") \in ResRow /\ Row("CONFIRMED") \in ResRow
  <2>1. now + TTL \in Nat
    BY NumbersAssumption DEF AInv, TypeOK
  <2>2. sess[s].type \in Type /\ policy.charges \in BOOLEAN
    BY DEF AInv, TypeOK, Session, Policy
  <2>3. QED BY <1>1, <2>1, <2>2 DEF ResRow, ResStatus
<1>3. Sound(slot, res, occ) /\ Tables(slot, res, occ) /\ Tied(slot, res, occ)
  BY InvSound DEF Sound
<1>4. ResAgrees(r) /\ payment[r] = "NONE"
  BY <1>1 DEF AInv, Agree, ResAgrees
<1>5. CASE /\ policy.charges
           /\ res' = [res EXCEPT ![r] = Row("PENDING")]
           /\ slot' = WithStatus(slot, x, "HOLD") /\ occ' = occ
  <2>1. Row("PENDING").slot = x /\ Row("PENDING").status = "PENDING"
    OBVIOUS
  <2>2. Effect({r})
    BY <1>1, <1>2, <1>3, <1>5, <2>1, NewRes DEF Effect
  <2>3. res'[r] = Row("PENDING")
    BY <1>3, <1>5 DEF Tables
  <2>4. ResAgrees(r)'
    BY <1>1, <1>4, <2>3 DEF ResAgrees, Settled
  <2>5. \A y \in Slots \cap {r} : OccAgrees(y)'
    BY IdsAssumption
  <2>6. AInv'
    BY <1>1, <2>2, <2>4, <2>5, ChangedTx DEF AInv, TypeOK
  <2>7. QED BY <1>1, <2>2, <2>3, <2>6 DEF Active
<1>6. CASE /\ ~policy.charges
           /\ res' = [res EXCEPT ![r] = Row("CONFIRMED")]
           /\ IF sess[s].type = "RECURRING"
              THEN Generated(free, WithStatus(slot, x, "RESERVED"), occ, r, x)
              ELSE slot' = WithStatus(slot, x, "RESERVED") /\ occ' = occ
  <2> DEFINE S1 == WithStatus(slot, x, "RESERVED")
  <2>1. Row("CONFIRMED").slot = x /\ Row("CONFIRMED").status = "CONFIRMED"
    OBVIOUS
  <2>2. /\ Sound(S1, res', occ) /\ Moves({r}, slot, res, occ, S1, res', occ)
        /\ Fits(slot, res, occ) => Fits(S1, res', occ)
    BY <1>1, <1>2, <1>3, <1>6, <2>1, NewRes
  <2>3. res'[r] = Row("CONFIRMED")
    BY <1>3, <1>6 DEF Tables
  <2>4. Effect({r})
    <3>1. CASE sess[s].type = "RECURRING"
      <4>1. S1[x].status = "RESERVED" /\ S1[x].lane = slot[x].lane /\ S1[x].week = slot[x].week
        BY <1>1, <1>3, SlotRows DEF Tables, SlotStatus
      <4>2. \A y \in Slots : occ[y].status # "NONE" => occ[y].of # r
        BY <1>1, <1>3 DEF Tied
      <4>3. Ready(S1, res', occ, r, x)
        BY <2>3, <4>1, <4>2 DEF Ready
      <4>4. Generated(free, S1, occ, r, x)
        BY <1>6, <3>1
      <4>5. /\ Sound(slot', res', occ') /\ Moves({}, S1, res', occ, slot', res', occ')
            /\ Fits(S1, res', occ) => Fits(slot', res', occ')
        BY <1>1, <2>2, <4>1, <4>3, <4>4, GeneratedStep
      <4>6. Moves({r} \cup {}, slot, res, occ, slot', res', occ')
        BY <2>2, <4>5, TwoMoves
      <4>7. {r} \cup {} = {r}
        OBVIOUS
      <4>8. \A y \in Slots : occ'[y].status = "RELEASED" => occ[y].status = "RELEASED"
        BY <1>3, <4>4, Released DEF Tables
      <4>9. QED BY <2>2, <4>5, <4>6, <4>7, <4>8 DEF Effect
    <3>2. CASE sess[s].type # "RECURRING"
      <4>1. slot' = S1 /\ occ' = occ
        BY <1>6, <3>2
      <4>2. QED BY <2>2, <4>1 DEF Effect
    <3>3. QED BY <3>1, <3>2
  <2>5. ResAgrees(r)'
    BY <1>1, <1>4, <1>6, <2>3 DEF ResAgrees, Settled
  <2>6. \A y \in Slots \cap {r} : OccAgrees(y)'
    BY IdsAssumption
  <2>7. AInv'
    BY <1>1, <2>4, <2>5, <2>6, ChangedTx DEF AInv, TypeOK
  <2>8. QED BY <1>1, <2>3, <2>4, <2>7 DEF Active
<1>7. QED BY <1>5, <1>6 DEF Reserve

LEMMA CancelStep ==
  ASSUME AInv, NEW s \in Sessions, Cancel(s)
  PROVE  /\ AInv' /\ Effect({sess[s].target}) /\ sess[s].target \in Reservations
         /\ res'[sess[s].target].status = "CANCELLED" /\ res[sess[s].target].status # "NONE"
<1>0. PICK r : r = sess[s].target
  OBVIOUS
<1> DEFINE S1 == SlotAt(sess[s].began)  R1 == ResAt(sess[s].began)  O1 == OccAt(sess[s].began)
<1>1. r \in Reservations /\ res[r].status # "NONE" /\ R1[r].status # "CONSUMED"
  BY <1>0 DEF Cancel, At, AInv, SessShape
<1>2. Tables(slot, res, occ)
  BY InvSound DEF Sound
<1>3. /\ R1[r].slot = res[r].slot /\ R1[r].status # "NONE" /\ res[r].status # "CONSUMED"
      /\ R1 \in [Reservations -> ResRow]
  BY <1>1, <1>2, MaintRows DEF StaleRes, Tables
<1>4. /\ res' = WithStatus(R1, r, "CANCELLED") /\ occ' = O1
      /\ slot' = IF R1[r].status # "CANCELLED" /\ S1[R1[r].slot].status \in {"RESERVED", "HOLD"}
                 THEN WithStatus(S1, R1[r].slot, "AVAILABLE") ELSE S1
      /\ Finish(s) /\ UNCHANGED <<now, policy, payment, event>>
  BY <1>0, <1>3 DEF Cancel
<1>5. /\ Sound(slot', res', occ') /\ Moves({r}, S1, R1, O1, slot', res', occ')
      /\ Fits(S1, R1, O1) => Fits(slot', res', occ')
  BY <1>1, <1>3, <1>4, MaintEffect, CancelRes
<1>6. Effect({r})
  BY <1>4, <1>5, TwoEffects
<1>7. res'[r].status = "CANCELLED"
  BY <1>1, <1>3, <1>4, ResRows DEF ResStatus
<1>8. ResAgrees(r)'
  BY <1>1, <1>3, <1>4, <1>7 DEF ResAgrees, Settled, AInv, Agree
<1>9. \A y \in Slots \cap {r} : OccAgrees(y)'
  BY <1>1, IdsAssumption
<1>10. AInv'
  BY <1>1, <1>4, <1>6, <1>8, <1>9, ChangedTx DEF AInv, TypeOK
<1>11. QED BY <1>0, <1>1, <1>6, <1>7, <1>10

LEMMA PayStep ==
  ASSUME AInv, NEW s \in Sessions, Pay(s)
  PROVE  AInv' /\ Effect({})
<1> DEFINE c == sess[s].target  t == sess[s].began
<1>1. c \in Contexts /\ payment[c] = "NONE" /\ Open(c, t)
  BY DEF Pay, MayPay, At, AInv, SessShape
<1>2. payment' = [payment EXCEPT ![c] = "PENDING"] /\ UNCHANGED <<now, policy, event>>
  BY DEF Pay
<1>3. slot' = SlotAt(t) /\ res' = ResAt(t) /\ occ' = OccAt(t) /\ Finish(s)
  BY DEF Pay, Maintained
<1>4. Effect({})
  BY <1>3, MaintEffect DEF Effect
<1>5. /\ payment' \in [Contexts -> PaymentStatus] /\ payment'[c] = "PENDING"
      /\ \A d \in Contexts \ {c} : payment'[d] = payment[d]
  BY <1>1, <1>2 DEF AInv, TypeOK, PaymentStatus
<1>6. Agree'
  <2> DEFINE N == {}
  <2>1. ASSUME NEW r \in Reservations PROVE ResAgrees(r)'
    <3>1. ResAgrees(r) /\ r \in Contexts /\ event'[r] = event[r]
      BY <1>2 DEF AInv, Agree, Contexts
    <3>2. /\ res'[r].status = "NONE" => res[r].status = "NONE"
          /\ res[r].status # "NONE" => res'[r].charged = res[r].charged
          /\ res[r].status = "CANCELLED" => res'[r] = res[r]
          /\ res'[r].status \in Settled => res[r].status \in Settled
          /\ res[r].status \in Settled => res'[r].status \in Settled \cup {"CANCELLED"}
          /\ res'[r].status = "CONSUMED" <=> res[r].status = "CONSUMED"
      BY <1>4 DEF Effect, Moves, ResMoves
    <3>3. CASE r = c
      <4>1. res'[r].status = "PENDING"
        BY <1>1, <1>3, <3>3 DEF Open
      <4>2. QED BY <1>5, <3>1, <3>2, <3>3, <4>1 DEF ResAgrees, Settled
    <3>4. CASE r # c
      BY <1>5, <3>1, <3>2, <3>4 DEF ResAgrees, Settled
    <3>5. QED BY <3>3, <3>4
  <2>2. ASSUME NEW x \in Slots PROVE OccAgrees(x)'
    <3>1. OccAgrees(x) /\ x \in Contexts
      BY DEF AInv, Agree, Contexts
    <3>2. /\ occ'[x].status = "NONE" => occ[x].status = "NONE"
          /\ occ'[x].status = "CONFIRMED" => occ[x].status = "CONFIRMED"
          /\ occ[x].status = "CONFIRMED" => occ'[x] = occ[x]
      BY <1>4 DEF Effect, Moves, OccMoves
    <3>3. CASE x = c
      <4>1. occ'[x].status = "PENDING_PAYMENT"
        BY <1>1, <1>3, <3>3, IdsAssumption DEF Open
      <4>2. QED BY <1>5, <3>3, <4>1 DEF OccAgrees
    <3>4. CASE x # c
      BY <1>5, <3>1, <3>2, <3>4 DEF OccAgrees
    <3>5. QED BY <3>3, <3>4
  <2>3. QED BY <2>1, <2>2 DEF Agree
<1>7. \A r \in Reservations : res[r].status # "NONE" => res'[r].status # "NONE"
  BY <1>4 DEF Effect, Moves, ResMoves
<1>8. sess' \in [Sessions -> Session] /\ SessShape'
  BY <1>2, <1>3, <1>7, OneSession, IdleIsSession DEF Finish
<1>9. QED BY <1>2, <1>4, <1>5, <1>6, <1>8, InvAfter DEF Effect, AInv, TypeOK

LEMMA HookReservationStep ==
  ASSUME AInv, NEW s \in Sessions, HookReservation(s)
  PROVE  /\ AInv' /\ Effect({sess[s].target}) /\ sess[s].target \in Reservations
         /\ sess[s].target \notin StaleRes(sess[s].began)
         /\ res[sess[s].target].status = "PENDING"
<1>0. PICK r : r = sess[s].target
  OBVIOUS
<1> DEFINE S1 == SlotAt(sess[s].began)  R1 == ResAt(sess[s].began)  O1 == OccAt(sess[s].began)
           S2 == WithStatus(S1, res[r].slot, "RESERVED")
<1>1. /\ r \in Reservations /\ payment[r] = "PENDING" /\ R1[r].status = "PENDING"
      /\ payment' = [payment EXCEPT ![r] = "PAID"]
      /\ res' = WithStatus(R1, r, "CONFIRMED")
      /\ Finish(s) /\ UNCHANGED <<now, policy, event>>
  BY <1>0 DEF HookReservation, MayConfirm, Open
<1>2. Tables(slot, res, occ) /\ Tied(slot, res, occ)
  BY InvSound DEF Sound
<1>3. /\ r \notin StaleRes(sess[s].began) /\ res[r].status = "PENDING"
      /\ R1[r].slot = res[r].slot /\ R1 \in [Reservations -> ResRow]
  BY <1>1, <1>2, MaintRows DEF Tables
<1>4. /\ Sound(S2, res', O1) /\ Moves({r}, S1, R1, O1, S2, res', O1)
      /\ Fits(S1, R1, O1) => Fits(S2, res', O1)
  BY <1>1, <1>3, MaintEffect, ConfirmRes
<1>5. res'[r].status = "CONFIRMED" /\ res'[r].slot = res[r].slot
  BY <1>1, <1>3, ResRows DEF ResStatus
<1>6. Effect({r})
  <2>1. CASE res[r].type = "RECURRING"
    <3> DEFINE b == res[r].slot
    <3>1. \A x \in Slots : occ[x].status # "NONE" => occ[x].of # r
      BY <1>2, <1>3 DEF Tied
    <3>2. Base(r) = b
      BY <3>1 DEF Base, OccurrencesOf
    <3>3. b \in Slots /\ slot[b].status # "NONE"
      BY <1>1, <1>2, <1>3 DEF Tied
    <3>4. S2[b].status = "RESERVED" /\ S2[b].lane = slot[b].lane /\ S2[b].week = slot[b].week
      <4>1. S1 \in [Slots -> SlotRow] /\ S1[b].lane = slot[b].lane /\ S1[b].week = slot[b].week
        BY <1>2, <3>3, MaintRows DEF Tables
      <4>2. QED BY <3>3, <4>1, SlotRows DEF SlotStatus
    <3>5. \A x \in Slots : O1[x].status # "NONE" => O1[x].of # r
      BY <1>2, <3>1, MaintRows DEF StaleOcc
    <3>6. Ready(S2, res', O1, r, b)
      BY <1>5, <3>4, <3>5 DEF Ready
    <3>7. Generated(sess[s].free, S2, O1, r, b)
      BY <1>0, <2>1, <3>2 DEF HookReservation
    <3>8. /\ Sound(slot', res', occ') /\ Moves({}, S2, res', O1, slot', res', occ')
          /\ Fits(S2, res', O1) => Fits(slot', res', occ')
      BY <1>1, <1>4, <3>3, <3>4, <3>6, <3>7, GeneratedStep
    <3>9. Moves({r} \cup {}, S1, R1, O1, slot', res', occ')
      BY <1>4, <3>8, TwoMoves
    <3>10. {r} \cup {} = {r}
      OBVIOUS
    <3>11. \A x \in Slots : occ'[x].status = "RELEASED" => O1[x].status = "RELEASED"
      BY <1>2, <3>7, Released, MaintRows DEF Tables
    <3>12. QED BY <1>4, <3>8, <3>9, <3>10, <3>11, TwoEffects
  <2>2. CASE res[r].type # "RECURRING"
    <3>1. slot' = S2 /\ occ' = O1
      BY <1>0, <2>2 DEF HookReservation
    <3>2. QED BY <1>4, <3>1, TwoEffects
  <2>3. QED BY <2>1, <2>2
<1>7. /\ payment' \in [Contexts -> PaymentStatus] /\ payment'[r] = "PAID"
      /\ \A d \in Contexts \ {r} : payment'[d] = payment[d]
  BY <1>1 DEF AInv, TypeOK, PaymentStatus, Contexts
<1>8. ResAgrees(r)'
  BY <1>1, <1>3, <1>5, <1>7 DEF ResAgrees, Settled, AInv, Agree
<1>9. \A y \in Slots \cap {r} : OccAgrees(y)'
  BY <1>1, IdsAssumption
<1>10. AInv'
  BY <1>1, <1>6, <1>7, <1>8, <1>9, ChangedTx DEF AInv, TypeOK
<1>11. QED BY <1>0, <1>1, <1>3, <1>6, <1>10


\* An open occurrence is the last of its reservation's.
LEMMA OpenIsLast ==
  ASSUME Sound(slot, res, occ), NEW x \in Slots, occ[x].status = "PENDING_PAYMENT"
  PROVE  /\ occ[x].of \in Reservations /\ Base(occ[x].of) = x
         /\ \A y \in Slots : occ[y].status # "NONE" /\ occ[y].of = occ[x].of /\ y # x =>
              occ[y].status = "CONFIRMED" /\ slot[y].week < slot[x].week
<1> DEFINE r == occ[x].of
<1>1. Tables(slot, res, occ) /\ Tied(slot, res, occ) /\ Weeks(slot, res, occ)
  BY DEF Sound
<1>2. r \in Reservations
  BY <1>1 DEF Tied
<1>3. \A y \in Slots : slot[y].week \in Nat
  BY <1>1 DEF Tables, SlotRow
<1>4. ASSUME NEW y \in Slots, occ[y].status # "NONE", occ[y].of = r, y # x
      PROVE  occ[y].status = "CONFIRMED" /\ slot[y].week < slot[x].week
  <2>1. slot[y].week < slot[x].week
    BY <1>1, <1>4 DEF Weeks
  <2>2. occ[y].status # "CONFIRMED" => slot[x].week < slot[y].week
    BY <1>1, <1>4 DEF Weeks
  <2>3. QED BY <1>3, <2>1, <2>2
<1>5. x \in OccurrencesOf(r) /\ \A y \in OccurrencesOf(r) : slot[y].week <= slot[x].week
  BY <1>3, <1>4 DEF OccurrencesOf
<1>6. \A z \in OccurrencesOf(r) : (\A y \in OccurrencesOf(r) : slot[y].week <= slot[z].week) => z = x
  BY <1>3, <1>4, <1>5 DEF OccurrencesOf
<1>7. Last(r) = x
  BY <1>5, <1>6 DEF Last
<1>8. Base(r) = x
  BY <1>5, <1>7 DEF Base
<1>9. QED BY <1>2, <1>4, <1>8

LEMMA HookOccurrenceStep ==
  ASSUME AInv, NEW s \in Sessions, HookOccurrence(s)
  PROVE  /\ AInv' /\ Effect({sess[s].target}) /\ sess[s].target \in Slots
         /\ sess[s].target \notin StaleOcc(sess[s].began)
<1>0. PICK x : x = sess[s].target
  OBVIOUS
<1> DEFINE S1 == SlotAt(sess[s].began)  R1 == ResAt(sess[s].began)  O1 == OccAt(sess[s].began)
           S2 == WithStatus(S1, x, "RESERVED")  O2 == WithStatus(O1, x, "CONFIRMED")
           r == occ[x].of
<1>1. /\ x \in Slots /\ x \notin Reservations /\ payment[x] = "PENDING"
      /\ O1[x].status = "PENDING_PAYMENT"
      /\ payment' = [payment EXCEPT ![x] = "PAID"] /\ res' = R1
      /\ Finish(s) /\ UNCHANGED <<now, policy, event>>
  BY <1>0, IdsAssumption DEF HookOccurrence, MayConfirm, Open
<1>2. Tables(slot, res, occ) /\ Tied(slot, res, occ) /\ Sound(slot, res, occ)
  BY InvSound DEF Sound
<1>3. x \notin StaleOcc(sess[s].began) /\ occ[x].status = "PENDING_PAYMENT"
  BY <1>1, <1>2, MaintRows
<1>4. /\ Sound(S2, R1, O2) /\ Moves({x}, S1, R1, O1, S2, R1, O2)
      /\ Fits(S1, R1, O1) => Fits(S2, R1, O2)
  BY <1>1, MaintEffect, ConfirmOcc
<1>5. /\ r \in Reservations /\ Base(r) = x
      /\ \A y \in Slots : occ[y].status # "NONE" /\ occ[y].of = r /\ y # x =>
           occ[y].status = "CONFIRMED" /\ slot[y].week < slot[x].week
  BY <1>1, <1>2, <1>3, OpenIsLast
<1>6. S1 \in [Slots -> SlotRow] /\ O1 \in [Slots -> OccRow] /\ R1 \in [Reservations -> ResRow]
  BY <1>2, MaintRows DEF Tables
<1>7. \A y \in Slots : /\ S2[y].status = IF y = x THEN "RESERVED" ELSE S1[y].status
                       /\ S2[y].lane = slot[y].lane /\ S2[y].week = slot[y].week
  BY <1>2, <1>6, SlotRows, MaintRows DEF SlotStatus
<1>8. /\ O2 \in [Slots -> OccRow]
      /\ \A y \in Slots : /\ O2[y].status = IF y = x THEN "CONFIRMED" ELSE O1[y].status
                          /\ O2[y].of = occ[y].of
  BY <1>2, <1>6, OccRows, MaintRows DEF OccStatus
<1>9. \A y \in Slots : occ[y].status = "CONFIRMED" \/ occ[y].status = "NONE" => O1[y].status = occ[y].status
  BY <1>2, MaintRows DEF StaleOcc
<1>10. Ready(S2, R1, O2, r, x)
  <2>1. res[r].status \notin {"NONE", "PENDING"} /\ slot[x].lane = slot[res[r].slot].lane
        /\ res[r].slot \in Slots /\ \A y \in Slots : slot[y].week \in Nat
    BY <1>1, <1>2, <1>3 DEF Tied, Sound, Weeks, Tables, SlotRow
  <2>2. R1[r].status = res[r].status /\ R1[r].slot = res[r].slot
    BY <1>2, <1>5, <2>1, MaintRows DEF StaleRes
  <2>3. ASSUME NEW y \in Slots, O2[y].status # "NONE", O2[y].of = r
        PROVE  O2[y].status = "CONFIRMED" /\ S2[y].week <= S2[x].week
    <3>1. CASE y = x
      BY <1>1, <1>7, <1>8, <2>1, <3>1
    <3>2. CASE y # x
      <4>1. occ[y].status # "NONE" /\ occ[y].of = r
        BY <1>8, <1>9, <2>3, <3>2
      <4>2. occ[y].status = "CONFIRMED" /\ slot[y].week < slot[x].week
        BY <1>5, <3>2, <4>1
      <4>3. QED BY <1>1, <1>7, <1>8, <1>9, <2>1, <3>2, <4>2
    <3>3. QED BY <3>1, <3>2
  <2>4. S2[x].status = "RESERVED" /\ O2[x].status = "CONFIRMED" /\ O2[x].of = r
        /\ S2[x].lane = S2[R1[r].slot].lane
    BY <1>1, <1>7, <1>8, <2>1, <2>2
  <2>5. QED BY <2>1, <2>2, <2>3, <2>4 DEF Ready
<1>11. Generated(sess[s].free, S2, O2, r, x)
  BY <1>0, <1>5 DEF HookOccurrence
<1>12. /\ Sound(slot', R1, occ') /\ Moves({}, S2, R1, O2, slot', R1, occ')
       /\ Fits(S2, R1, O2) => Fits(slot', R1, occ')
  BY <1>1, <1>4, <1>5, <1>7, <1>10, <1>11, GeneratedStep
<1>13. Moves({x}, S1, R1, O1, slot', R1, occ')
  <2>1. Moves({x} \cup {}, S1, R1, O1, slot', R1, occ')
    BY <1>4, <1>12, TwoMoves
  <2>2. {x} \cup {} = {x}
    OBVIOUS
  <2>3. QED BY <2>1, <2>2
<1>14. \A y \in Slots : occ'[y].status = "RELEASED" => O1[y].status = "RELEASED"
  <2>1. \A y \in Slots : occ'[y].status = "RELEASED" => O2[y].status = "RELEASED"
    BY <1>8, <1>11, Released
  <2>2. QED BY <1>8, <2>1
<1>15. Effect({x})
  BY <1>1, <1>4, <1>12, <1>13, <1>14, TwoEffects
<1>16. /\ payment' \in [Contexts -> PaymentStatus] /\ payment'[x] = "PAID"
       /\ \A d \in Contexts \ {x} : payment'[d] = payment[d]
  BY <1>1 DEF AInv, TypeOK, PaymentStatus, Contexts
<1>17. occ'[x].status = "CONFIRMED"
  <2>1. O2[x].status = "CONFIRMED"
    BY <1>1, <1>8
  <2>2. OccMoves({}, S2, O2, occ')
    BY <1>12 DEF Moves
  <2>3. QED BY <1>1, <2>1, <2>2 DEF OccMoves
<1>18. OccAgrees(x)'
  BY <1>16, <1>17 DEF OccAgrees
<1>19. \A q \in Reservations \cap {x} : ResAgrees(q)'
  BY <1>1
<1>20. \A y \in Slots \cap {x} : OccAgrees(y)'
  BY <1>18
<1>21. AInv'
  BY <1>1, <1>15, <1>16, <1>19, <1>20, ChangedTx DEF AInv, TypeOK
<1>22. QED BY <1>0, <1>1, <1>3, <1>15, <1>21

LEMMA HookRepeatedStep ==
  ASSUME AInv, NEW s \in Sessions, HookRepeated(s)
  PROVE  AInv' /\ Effect({})
<1>1. Effect({})
  BY MaintEffect DEF HookRepeated, Maintained, Effect
<1>2. QED BY <1>1, EndedTx, IdleIsSession DEF HookRepeated, Finish

\* Steps that leave the requests as they are.
LEMMA NoSession ==
  ASSUME AInv, sess' = sess, now' \in Nat, now <= now', policy' \in Policy, NEW C, Effect(C),
         payment' \in [Contexts -> PaymentStatus], event' \in [Reservations -> EventStatus],
         \A c \in Contexts \ C : payment'[c] = payment[c],
         \A r \in Reservations \ C : event'[r] = event[r],
         \A r \in Reservations \cap C : ResAgrees(r)',
         \A x \in Slots \cap C : OccAgrees(x)'
  PROVE  AInv'
<1>1. \A r \in Reservations : res[r].status # "NONE" => res'[r].status # "NONE"
  BY DEF Effect, Moves, ResMoves
<1>2. \A s \in Sessions : sess[s].began <= now'
  <2>1. \A s \in Sessions : sess[s].began \in Nat /\ sess[s].began <= now
    BY DEF AInv, TypeOK, Session, SessShape
  <2>2. QED BY <2>1 DEF AInv, TypeOK
<1>3. SessShape'
  BY <1>1, <1>2 DEF AInv, SessShape
<1>4. Agree'
  BY Agreement DEF Effect, AInv
<1>5. QED BY <1>3, <1>4, InvAfter DEF Effect, AInv, TypeOK

LEMMA MarkStep ==
  ASSUME AInv, NEW c \in Contexts, NEW st \in {"FAILED", "CANCELLED"}, MarkNonPaid(c, st)
  PROVE  AInv' /\ Effect({})
<1>1. UNCHANGED <<now, policy, slot, res, occ, event, sess>> /\ payment[c] = "PENDING"
  BY DEF MarkNonPaid
<1>2. /\ payment' \in [Contexts -> PaymentStatus] /\ payment'[c] = st
      /\ \A d \in Contexts \ {c} : payment'[d] = payment[d]
  BY DEF MarkNonPaid, AInv, TypeOK, PaymentStatus
<1>3. Effect({})
  BY <1>1, UnchangedEffect
<1>4. \A r \in Reservations : ResAgrees(r)'
  BY <1>1, <1>2 DEF AInv, Agree, ResAgrees, Contexts
<1>5. \A x \in Slots : OccAgrees(x)'
  BY <1>1, <1>2 DEF AInv, Agree, OccAgrees, Contexts
<1>6. SessShape' /\ Agree'
  BY <1>1, <1>4, <1>5 DEF AInv, SessShape, Agree
<1>7. QED BY <1>1, <1>2, <1>3, <1>6, InvAfter DEF Effect, AInv, TypeOK

LEMMA CreateEventStep ==
  ASSUME AInv, NEW r \in Reservations, CreateEvent(r)
  PROVE  AInv' /\ Effect({r}) /\ res[r].status = "CONFIRMED" /\ res'[r].status = "CONSUMED"
<1>1. /\ res[r].status = "CONFIRMED" /\ res' = WithStatus(res, r, "CONSUMED")
      /\ event' = [event EXCEPT ![r] = "LIVE"]
      /\ UNCHANGED <<now, policy, slot, occ, payment, sess>>
  BY DEF CreateEvent
<1>2. Sound(slot, res, occ) /\ Tables(slot, res, occ)
  BY InvSound DEF Sound
<1>3. Effect({r})
  BY <1>1, <1>2, ConsumeRes DEF Effect
<1>4. res'[r].status = "CONSUMED" /\ res'[r].charged = res[r].charged
  BY <1>1, <1>2, ResRows DEF Tables, ResStatus
<1>5. /\ event' \in [Reservations -> EventStatus] /\ event'[r] = "LIVE"
      /\ \A q \in Reservations \ {r} : event'[q] = event[q]
  BY <1>1 DEF AInv, TypeOK, EventStatus
<1>6. ResAgrees(r)'
  BY <1>1, <1>4, <1>5 DEF AInv, Agree, ResAgrees, Settled
<1>7. \A y \in Slots \cap {r} : OccAgrees(y)'
  BY IdsAssumption
<1>8. now' \in Nat /\ now <= now' /\ policy' \in Policy /\ payment' \in [Contexts -> PaymentStatus]
  BY <1>1 DEF AInv, TypeOK
<1>9. AInv'
  BY <1>1, <1>3, <1>5, <1>6, <1>7, <1>8, NoSession
<1>10. QED BY <1>1, <1>3, <1>4, <1>9

LEMMA CancelEventStep ==
  ASSUME AInv, NEW s \in Sessions, CancelEvent(s)
  PROVE  /\ AInv' /\ Effect({sess[s].target}) /\ sess[s].target \in Reservations
         /\ res[sess[s].target].status # "NONE"
         /\ res'[sess[s].target].status \in Active =>
              res[sess[s].target].status = res'[sess[s].target].status
<1>0. PICK r : r = sess[s].target
  OBVIOUS
<1>1. /\ r \in Reservations /\ res[r].status # "NONE" /\ sess[s].op = "cancelEvent"
      /\ event' = [event EXCEPT ![r] = "CANCELLED"]
      /\ slot' = WithStatus(slot, res[r].slot, "AVAILABLE")
      /\ res' = IF res[r].status = "CONSUMED" THEN WithStatus(res, r, "CANCELLED") ELSE res
      /\ Finish(s) /\ UNCHANGED <<now, policy, occ, payment>>
  BY <1>0 DEF CancelEvent, At, AInv, SessShape
<1>2. Sound(slot, res, occ) /\ Tables(slot, res, occ)
  BY InvSound DEF Sound
<1>3. CancelsLive => res[r].status = "CONSUMED"
  BY <1>0, <1>1 DEF CancelsLive, AInv, Agree, ResAgrees
<1>4. Effect({r})
  BY <1>1, <1>2, <1>3, CancelEv DEF Effect
<1>5. res'[r].status = (IF res[r].status = "CONSUMED" THEN "CANCELLED" ELSE res[r].status)
      /\ res'[r].charged = res[r].charged
  BY <1>1, <1>2, ResRows DEF Tables, ResStatus
<1>6. /\ event' \in [Reservations -> EventStatus] /\ event'[r] = "CANCELLED"
      /\ \A q \in Reservations \ {r} : event'[q] = event[q]
  BY <1>1 DEF AInv, TypeOK, EventStatus
<1>7. ResAgrees(r)'
  BY <1>1, <1>5, <1>6 DEF AInv, Agree, ResAgrees, Settled
<1>8. \A y \in Slots \cap {r} : OccAgrees(y)'
  BY <1>1, IdsAssumption
<1>9. AInv'
  BY <1>1, <1>4, <1>6, <1>7, <1>8, ChangedTx DEF AInv, TypeOK
<1>10. QED BY <1>0, <1>1, <1>4, <1>5, <1>9 DEF Active

LEMMA OtherStep ==
  ASSUME AInv, (\E p \in Policies : UpdatePolicy(p)) \/ Tick \/ UNCHANGED vars
  PROVE  AInv' /\ Effect({})
<1>1. UNCHANGED <<slot, res, occ, payment, event, sess>>
  BY DEF UpdatePolicy, Tick, vars, tables
<1>2. now \in Nat /\ policy \in Policy
  BY DEF AInv, TypeOK
<1>3. now' \in Nat /\ now <= now' /\ policy' \in Policy
  BY <1>2, ChoicesAssumption DEF UpdatePolicy, Tick, vars
<1>4. Effect({})
  BY <1>1, UnchangedEffect
<1>5. AInv'
  BY <1>1, <1>3, <1>4, NoSession DEF AInv, TypeOK
<1>6. QED BY <1>4, <1>5


-----------------------------------------------------------------------------
(* Every step. *)

\* What a step inserts among the rows in C is on a free slot, and what it confirms
\* was in time.
Timely(C) ==
  /\ \A r \in Reservations \cap C :
       /\ res[r].status = "NONE" => res'[r].status \in {"NONE"} \cup Active
       /\ res'[r].status \in Active /\ res[r].status \notin Active =>
            res[r].status = "NONE" /\ slot[res'[r].slot].status = "AVAILABLE"
  /\ \A r \in Reservations \cap C :
       res[r].status = "PENDING" /\ res'[r].status = "CONFIRMED" =>
         \E s \in Sessions : sess[s].target = r /\ sess[s].began < res[r].expires
  /\ \A x \in Slots \cap C :
       occ[x].status = "PENDING_PAYMENT" /\ occ'[x].status = "CONFIRMED" =>
         \E s \in Sessions : sess[s].target = x /\ sess[s].began < Due(x)

LEMMA ConfirmedInTime ==
  ASSUME AInv, NEW s \in Sessions, HookReservation(s) \/ HookOccurrence(s)
  PROVE  Timely({sess[s].target})
<1>1. sess[s].began \in Nat /\ Tables(slot, res, occ)
  BY InvSound DEF Sound, AInv, TypeOK, Session
<1>2. CASE HookReservation(s)
  <2>1. /\ sess[s].target \in Reservations /\ sess[s].target \notin StaleRes(sess[s].began)
        /\ res[sess[s].target].status = "PENDING"
    BY <1>2, HookReservationStep
  <2>2. \A r \in Reservations : res[r].expires \in Nat
    BY <1>1 DEF Tables, ResRow
  <2>3. \A r \in Reservations \cap {sess[s].target} :
          res[r].status = "PENDING" => sess[s].began < res[r].expires
    BY <1>1, <2>1, <2>2 DEF StaleRes
  <2>4. QED BY <2>1, <2>3, IdsAssumption DEF Timely, Active
<1>3. CASE HookOccurrence(s)
  <2>1. sess[s].target \in Slots /\ sess[s].target \notin StaleOcc(sess[s].began)
    BY <1>3, HookOccurrenceStep
  <2>2. \A x \in Slots : Due(x) \in Int
    <3>1. \A x \in Slots : slot[x].week \in Nat
      BY <1>1 DEF Tables, SlotRow
    <3>2. QED BY <3>1, NumbersAssumption DEF Due, StartOf
  <2>3. \A x \in Slots \cap {sess[s].target} :
          occ[x].status = "PENDING_PAYMENT" => sess[s].began < Due(x)
    BY <1>1, <2>1, <2>2 DEF StaleOcc
  <2>4. QED BY <2>1, <2>3, IdsAssumption DEF Timely, Active
<1>4. QED BY <1>2, <1>3

LEMMA EveryStep ==
  ASSUME AInv, [Next]_vars
  PROVE  AInv' /\ \E C \in SUBSET Contexts : Effect(C) /\ Timely(C)
<1>0. Timely({}) /\ {} \in SUBSET Contexts
  BY DEF Timely
<1>1. ASSUME NEW s \in Sessions, Arrive(s)
      PROVE  AInv' /\ \E C \in SUBSET Contexts : Effect(C) /\ Timely(C)
  BY <1>0, <1>1, ArriveStep
<1>2. ASSUME NEW s \in Sessions, Progress(s) \/ Crash(s)
      PROVE  AInv' /\ \E C \in SUBSET Contexts : Effect(C) /\ Timely(C)
  <2>1. CASE Maintain(s) \/ MaintainFails(s)
    BY <1>0, <2>1, MaintainStep
  <2>2. CASE Look(s)
    BY <1>0, <2>2, LookStep
  <2>3. ASSUME NEW r \in Reservations, Reserve(s, r)
        PROVE  AInv' /\ \E C \in SUBSET Contexts : Effect(C) /\ Timely(C)
    <3>1. /\ AInv' /\ Effect({r}) /\ res[r].status = "NONE"
          /\ res'[r].status \in Active /\ slot[res'[r].slot].status = "AVAILABLE"
      BY <2>3, ReserveStep
    <3>2. Timely({r}) /\ {r} \in SUBSET Contexts
      BY <3>1, IdsAssumption DEF Timely, Contexts
    <3>3. QED BY <3>1, <3>2
  <2>4. CASE \/ ReserveRefused(s) \/ CancelRefused(s) \/ PayRefused(s) \/ HookRefused(s)
             \/ CreateSlotRefused(s) \/ Crash(s)
    <3>1. Abandon(s)
      BY <2>4 DEF ReserveRefused, CancelRefused, PayRefused, HookRefused, CreateSlotRefused, Crash
    <3>2. QED BY <1>0, <3>1, AbandonStep
  <2>5. CASE Cancel(s)
    <3>1. /\ AInv' /\ Effect({sess[s].target}) /\ sess[s].target \in Reservations
          /\ res'[sess[s].target].status = "CANCELLED" /\ res[sess[s].target].status # "NONE"
      BY <2>5, CancelStep
    <3>2. Timely({sess[s].target}) /\ {sess[s].target} \in SUBSET Contexts
      BY <3>1, IdsAssumption DEF Timely, Contexts, Active
    <3>3. QED BY <3>1, <3>2
  <2>6. CASE Pay(s)
    BY <1>0, <2>6, PayStep
  <2>7. CASE HookReservation(s)
    BY <2>7, HookReservationStep, ConfirmedInTime DEF Contexts
  <2>8. CASE HookOccurrence(s)
    BY <2>8, HookOccurrenceStep, ConfirmedInTime DEF Contexts
  <2>9. CASE HookRepeated(s)
    BY <1>0, <2>9, HookRepeatedStep
  <2>10. ASSUME NEW y \in Slots, CreateSlot(s, y)
         PROVE  AInv' /\ \E C \in SUBSET Contexts : Effect(C) /\ Timely(C)
    BY <1>0, <2>10, CreateSlotStep
  <2>11. CASE CancelEvent(s)
    <3>1. /\ AInv' /\ Effect({sess[s].target}) /\ sess[s].target \in Reservations
          /\ res[sess[s].target].status # "NONE"
          /\ res'[sess[s].target].status \in Active =>
               res[sess[s].target].status = res'[sess[s].target].status
      BY <2>11, CancelEventStep
    <3>2. Timely({sess[s].target}) /\ {sess[s].target} \in SUBSET Contexts
      BY <3>1, IdsAssumption DEF Timely, Contexts, Active
    <3>3. QED BY <3>1, <3>2
  <2>12. QED BY <1>2, <2>1, <2>2, <2>3, <2>4, <2>5, <2>6, <2>7, <2>8, <2>9, <2>10, <2>11 DEF Progress
<1>3. ASSUME NEW c \in Contexts, NEW st \in {"FAILED", "CANCELLED"}, MarkNonPaid(c, st)
      PROVE  AInv' /\ \E C \in SUBSET Contexts : Effect(C) /\ Timely(C)
  BY <1>0, <1>3, MarkStep
<1>4. ASSUME NEW r \in Reservations, CreateEvent(r)
      PROVE  AInv' /\ \E C \in SUBSET Contexts : Effect(C) /\ Timely(C)
  <2>1. AInv' /\ Effect({r}) /\ res[r].status = "CONFIRMED"
    BY <1>4, CreateEventStep
  <2>2. Timely({r}) /\ {r} \in SUBSET Contexts
    BY <2>1, IdsAssumption DEF Timely, Contexts, Active
  <2>3. QED BY <2>1, <2>2
<1>5. CASE (\E p \in Policies : UpdatePolicy(p)) \/ Tick \/ UNCHANGED vars
  BY <1>0, <1>5, OtherStep
<1>6. QED BY <1>1, <1>2, <1>3, <1>4, <1>5 DEF Next

LEMMA InitInv ==
  ASSUME Init
  PROVE  AInv /\ Fits(slot, res, occ)
<1>1. \A r \in Reservations : res[r].status = "NONE" /\ payment[r] = "NONE" /\ event[r] = "NONE"
  BY DEF Init, Contexts
<1>2. \A x \in Slots : /\ occ[x].status = "NONE" /\ payment[x] = "NONE"
                       /\ slot[x].status \in {"NONE", "AVAILABLE"}
  BY FirstAssumption DEF Init, Contexts
<1>3. \A s \in Sessions : sess[s] = IdleSession /\ sess[s].op = "none" /\ sess[s].began = 0
  BY DEF Init, IdleSession
<1>4. TypeOK
  <2>1. now \in Nat /\ policy \in Policy /\ slot \in [Slots -> SlotRow]
    BY FirstAssumption, ChoicesAssumption DEF Init
  <2>2. res \in [Reservations -> ResRow]
    BY DEF Init, ResRow, ResStatus, Type
  <2>3. occ \in [Slots -> OccRow] /\ payment \in [Contexts -> PaymentStatus]
        /\ event \in [Reservations -> EventStatus]
    BY DEF Init, OccRow, OccStatus, PaymentStatus, EventStatus
  <2>4. sess \in [Sessions -> Session]
    BY IdleIsSession DEF Init
  <2>5. QED BY <2>1, <2>2, <2>3, <2>4 DEF TypeOK
<1>5. Tied(slot, res, occ) /\ Weeks(slot, res, occ)
  BY <1>1, <1>2 DEF Tied, Weeks
<1>6. SessShape
  BY <1>3 DEF SessShape, Init
<1>7. Agree
  BY <1>1, <1>2 DEF Agree, ResAgrees, OccAgrees, Settled
<1>8. Fits(slot, res, occ)
  BY <1>1, <1>2 DEF Fits, Fit, Uses, Active
<1>9. QED BY <1>4, <1>5, <1>6, <1>7, <1>8 DEF AInv

-----------------------------------------------------------------------------
(* The theorems, whatever is cancelled at once. *)

\* Rows exist that others refer to, weeks follow each other and payments, events
\* and reservations agree, for any number of slots, reservations and requests.
THEOREM ArenaInvariance == Spec => []AInv
<1>1. Init => AInv
  BY InitInv
<1>2. AInv /\ [Next]_vars => AInv'
  BY EveryStep
<1>3. QED BY <1>1, <1>2, PTL DEF Spec

\* Every variable keeps its type.
THEOREM ArenaTypes == Spec => []TypeOK
<1>1. AInv => TypeOK BY DEF AInv
<1>2. QED BY <1>1, ArenaInvariance, PTL

\* The occurrences of a recurring reservation follow each other week by week,
\* without gap or repetition, at most the last of them unpaid, however long the
\* recurrence and in whatever order payments, releases and cancellations come.
THEOREM WeeksFollow == Spec => []WeekByWeek
<1>1. AInv => WeekByWeek
  <2> SUFFICES ASSUME AInv, NEW r \in Reservations
      PROVE  /\ \A x, y \in OccurrencesOf(r) : slot[x].week = slot[y].week => x = y
             /\ \A x \in OccurrencesOf(r) :
                  /\ slot[x].lane = slot[res[r].slot].lane /\ slot[x].week > slot[res[r].slot].week
                  /\ slot[x].week > slot[res[r].slot].week + 1 =>
                       \E y \in OccurrencesOf(r) :
                         slot[y].week = slot[x].week - 1 /\ occ[y].status = "CONFIRMED"
    BY DEF WeekByWeek
  <2>1. Weeks(slot, res, occ)
    BY DEF AInv
  <2>2. \A x \in OccurrencesOf(r) : x \in Slots /\ occ[x].status # "NONE" /\ occ[x].of = r
    BY DEF OccurrencesOf
  <2>3. \A y \in Slots : occ[y].status = "CONFIRMED" /\ occ[y].of = r => y \in OccurrencesOf(r)
    BY DEF OccurrencesOf
  <2>4. \A x, y \in OccurrencesOf(r) : slot[x].week = slot[y].week => x = y
    BY <2>1, <2>2 DEF Weeks
  <2>5. ASSUME NEW x \in OccurrencesOf(r)
        PROVE  /\ slot[x].lane = slot[res[r].slot].lane /\ slot[x].week > slot[res[r].slot].week
               /\ slot[x].week > slot[res[r].slot].week + 1 =>
                    \E y \in OccurrencesOf(r) :
                      slot[y].week = slot[x].week - 1 /\ occ[y].status = "CONFIRMED"
    BY <2>1, <2>2, <2>3 DEF Weeks
  <2>6. QED BY <2>4, <2>5
<1>2. QED BY <1>1, ArenaInvariance, PTL

\* A live event is on a CONSUMED reservation and the other way round.
THEOREM EventsKept == Spec => []EventOnReservation
<1>1. AInv => EventOnReservation BY DEF AInv, Agree, ResAgrees, EventOnReservation
<1>2. QED BY <1>1, ArenaInvariance, PTL

\* Money and agenda agree, whatever policies the arena is given meanwhile.
THEOREM PaymentsKept == Spec => []PaidIsConfirmed
<1>1. AInv => PaidIsConfirmed
  BY DEF AInv, Agree, ResAgrees, OccAgrees, PaidIsConfirmed, Settled
<1>2. QED BY <1>1, ArenaInvariance, PTL

\* What is over, released or cancelled stays so.
THEOREM AgendaIsFinal == Spec => EndedIsFinal
<1>1. AInv /\ [Next]_vars =>
        [/\ \A r \in Reservations :
              /\ res[r].status = "CANCELLED" => res'[r] = res[r]
              /\ res[r].status = "CONSUMED" => res'[r].status \in {"CONSUMED", "CANCELLED"}
         /\ \A x \in Slots : occ[x].status \in {"RELEASED", "CONFIRMED"} => occ'[x] = occ[x]]_vars
  <2> SUFFICES ASSUME AInv, [Next]_vars
      PROVE  /\ \A r \in Reservations :
                  /\ res[r].status = "CANCELLED" => res'[r] = res[r]
                  /\ res[r].status = "CONSUMED" => res'[r].status \in {"CONSUMED", "CANCELLED"}
             /\ \A x \in Slots : occ[x].status \in {"RELEASED", "CONFIRMED"} => occ'[x] = occ[x]
    OBVIOUS
  <2>1. PICK C : Effect(C)
    BY EveryStep
  <2>2. QED BY <2>1 DEF Effect, Moves, ResMoves, OccMoves
<1>2. QED BY <1>1, ArenaInvariance, PTL DEF Spec, EndedIsFinal

\* What is confirmed was in time when its webhook began, and what is released was
\* past its deadline, whoever maintains the agenda and however late.
THEOREM DeadlinesHold == Spec => DeadlinesKept
<1>1. AInv /\ [Next]_vars =>
        [/\ \A r \in Reservations :
              (res[r].status = "PENDING" /\ res'[r].status = "CONFIRMED")
                => \E s \in Sessions : sess[s].target = r /\ sess[s].began < res[r].expires
         /\ \A x \in Slots :
              /\ (occ[x].status = "PENDING_PAYMENT" /\ occ'[x].status = "CONFIRMED")
                   => \E s \in Sessions : sess[s].target = x /\ sess[s].began < Due(x)
              /\ (occ[x].status = "PENDING_PAYMENT" /\ occ'[x].status = "RELEASED")
                   => Due(x) <= now]_vars
  <2> SUFFICES ASSUME AInv, [Next]_vars
      PROVE  /\ \A r \in Reservations :
                  (res[r].status = "PENDING" /\ res'[r].status = "CONFIRMED")
                    => \E s \in Sessions : sess[s].target = r /\ sess[s].began < res[r].expires
             /\ \A x \in Slots :
                  /\ (occ[x].status = "PENDING_PAYMENT" /\ occ'[x].status = "CONFIRMED")
                       => \E s \in Sessions : sess[s].target = x /\ sess[s].began < Due(x)
                  /\ (occ[x].status = "PENDING_PAYMENT" /\ occ'[x].status = "RELEASED")
                       => Due(x) <= now
    OBVIOUS
  <2>1. PICK C : Effect(C) /\ Timely(C)
    BY EveryStep
  <2>2. \A r \in Reservations \ C : ~(res[r].status = "PENDING" /\ res'[r].status = "CONFIRMED")
    BY <2>1 DEF Effect, Moves, ResMoves, Settled
  <2>3. \A x \in Slots \ C : ~(occ[x].status = "PENDING_PAYMENT" /\ occ'[x].status = "CONFIRMED")
    BY <2>1 DEF Effect, Moves, OccMoves
  <2>4. \A x \in Slots : occ[x].status = "PENDING_PAYMENT" /\ occ'[x].status = "RELEASED" =>
          Due(x) <= now
    BY <2>1 DEF Effect
  <2>5. QED BY <2>1, <2>2, <2>3, <2>4 DEF Timely
<1>2. QED BY <1>1, ArenaInvariance, PTL DEF Spec, DeadlinesKept


-----------------------------------------------------------------------------
(* While no event is cancelled twice. *)

FInv == AInv /\ Fits(slot, res, occ)

LEMMA FitStep ==
  ASSUME FInv, [Next]_vars, CancelsLive
  PROVE  FInv'
<1>1. AInv' /\ \E C \in SUBSET Contexts : Effect(C) /\ Timely(C)
  BY EveryStep DEF FInv
<1>2. Fits(slot', res', occ')
  BY <1>1 DEF Effect, FInv
<1>3. QED BY <1>1, <1>2 DEF FInv

LEMMA UnchangedFit ==
  ASSUME FInv, UNCHANGED vars
  PROVE  FInv'
<1>1. AInv'
  BY EveryStep DEF FInv
<1>2. UNCHANGED <<slot, res, occ>>
  BY DEF vars, tables
<1>3. QED BY <1>1, <1>2 DEF FInv

\* Slots, reservations and occurrences tell the same use of each slot as long as
\* no cancellation is of an event cancelled already: agenda_cancels shows what
\* happens otherwise.
THEOREM FitInvariance == Spec /\ [][CancelsLive]_vars => []FInv
<1>1. Init => FInv
  BY InitInv DEF FInv
<1>2. FInv /\ [Next]_vars /\ [CancelsLive]_vars => FInv'
  <2>1. CASE UNCHANGED vars
    BY <2>1, UnchangedFit
  <2>2. CASE ~UNCHANGED vars
    BY <2>2, FitStep
  <2>3. QED BY <2>1, <2>2
<1>3. QED BY <1>1, <1>2, PTL DEF Spec

\* A slot is promised to one reservation or occurrence at a time.
THEOREM OneUseKept == Spec /\ [][CancelsLive]_vars => []OneUsePerSlot
<1>1. FInv => OneUsePerSlot
  BY DEF FInv, Fits, Fit, Uses, OneUsePerSlot, ReservedBy, OccurrenceOn
<1>2. QED BY <1>1, FitInvariance, PTL

\* The status of a slot is the state of its use.
THEOREM SlotStatusKept == Spec /\ [][CancelsLive]_vars => []SlotShowsUse
<1>1. FInv => SlotShowsUse
  <2> SUFFICES ASSUME FInv, NEW x \in Slots
      PROVE  /\ slot[x].status = "HOLD" <=>
                  \/ \E r \in ReservedBy(x) : res[r].status = "PENDING"
                  \/ occ[x].status = "PENDING_PAYMENT"
             /\ slot[x].status = "RESERVED" <=>
                  \/ \E r \in ReservedBy(x) : res[r].status \in {"CONFIRMED", "CONSUMED"}
                  \/ occ[x].status = "CONFIRMED"
    BY DEF SlotShowsUse
  <2>1. Fit(slot, res, occ, x)
    BY DEF FInv, Fits
  <2>2. \A r : r \in ReservedBy(x) <=> r \in Reservations /\ res[r].status \in Active /\ res[r].slot = x
    BY DEF ReservedBy
  <2>3. QED BY <2>1, <2>2 DEF Fit, Active
<1>2. QED BY <1>1, FitInvariance, PTL

-----------------------------------------------------------------------------
(* What HoldsEnd needs of the steps, without fairness. *)

\* The slot is on hold for a reservation or an occurrence that has until d to be paid.
HoldsTill(x, d) ==
  \/ \E r \in Reservations : res[r].status = "PENDING" /\ res[r].slot = x /\ res[r].expires = d
  \/ occ[x].status = "PENDING_PAYMENT" /\ Due(x) = d

\* A step that leaves a slot on hold leaves it with the deadline it had, and is no
\* maintenance of a transaction that began at that deadline or later.
HoldRunsOut(x) ==
  slot[x].status = "HOLD" /\ slot'[x].status = "HOLD" =>
    \E d \in Int :
      /\ HoldsTill(x, d) /\ HoldsTill(x, d)'
      /\ \A s \in Sessions : Maintain(s) => sess[s].began < d

LEMMA HoldStep ==
  ASSUME FInv, FInv', NEW C, Effect(C), Timely(C), NEW x \in Slots
  PROVE  HoldRunsOut(x)
<1> SUFFICES ASSUME slot[x].status = "HOLD", slot'[x].status = "HOLD"
             PROVE  \E d \in Int :
                      /\ HoldsTill(x, d) /\ HoldsTill(x, d)'
                      /\ \A s \in Sessions : Maintain(s) => sess[s].began < d
  BY DEF HoldRunsOut
<1>1. Fit(slot, res, occ, x) /\ Fit(slot', res', occ', x)
  BY DEF FInv, Fits
<1>2. Sound(slot, res, occ) /\ Tables(slot, res, occ)
  BY InvSound DEF FInv, Sound
<1>3. CASE \E r \in Reservations : res'[r].status = "PENDING" /\ res'[r].slot = x
  <2>1. PICK r \in Reservations : res'[r].status = "PENDING" /\ res'[r].slot = x
    BY <1>3
  <2>2. res[r].status \in ResStatus /\ res[r].expires \in Nat
    BY <1>2 DEF Tables, ResRow
  <2>3. res[r].status # "NONE"
    BY <2>1 DEF Effect, Moves, ResMoves, Timely, Active
  <2>4. res[r].slot = x /\ res'[r].expires = res[r].expires
    BY <2>1, <2>3 DEF Effect, Moves, ResMoves
  <2>5. res[r].status \notin {"CANCELLED", "CONSUMED"}
    BY <2>1 DEF Effect, Moves, ResMoves
  <2>6. res[r].status # "CONFIRMED"
    BY <1>1, <2>4 DEF Fit
  <2>7. res[r].status = "PENDING"
    BY <2>2, <2>3, <2>5, <2>6 DEF ResStatus
  <2>8. PICK d \in Int : d = res[r].expires
    BY <2>2
  <2>9. HoldsTill(x, d) /\ HoldsTill(x, d)'
    BY <2>1, <2>4, <2>7, <2>8 DEF HoldsTill
  <2>10. ASSUME NEW s \in Sessions, Maintain(s)
         PROVE  sess[s].began < d
    <3>1. res' = ResAt(sess[s].began)
      BY <2>10 DEF Maintain, Maintained
    <3>2. r \notin StaleRes(sess[s].began)
      BY <1>2, <2>1, <3>1, MaintRows
    <3>3. sess[s].began \in Nat
      BY DEF FInv, AInv, TypeOK, Session
    <3>4. QED BY <2>2, <2>7, <2>8, <3>2, <3>3 DEF StaleRes
  <2>11. QED BY <2>9, <2>10
<1>4. CASE occ'[x].status = "PENDING_PAYMENT"
  <2>1. occ[x].status = "PENDING_PAYMENT"
    BY <1>4 DEF Effect, Moves, OccMoves
  <2>2. slot'[x].week = slot[x].week
    BY DEF Effect, Moves, SlotMoves
  <2>3. Due(x) \in Int /\ Due(x)' = Due(x)
    <3>1. slot[x].week \in Nat
      BY <1>2 DEF Tables, SlotRow
    <3>2. QED BY <2>2, <3>1, NumbersAssumption DEF Due, StartOf
  <2>4. HoldsTill(x, Due(x))
    BY <2>1 DEF HoldsTill
  <2>5. PICK d \in Int : d = Due(x)
    BY <2>3
  <2>6. HoldsTill(x, d)'
    BY <1>4, <2>3, <2>5 DEF HoldsTill
  <2>7. ASSUME NEW s \in Sessions, Maintain(s)
        PROVE  sess[s].began < d
    <3>1. occ' = OccAt(sess[s].began)
      BY <2>7 DEF Maintain, Maintained
    <3>2. x \notin StaleOcc(sess[s].began)
      BY <1>2, <1>4, <3>1, MaintRows
    <3>3. sess[s].began \in Nat
      BY DEF FInv, AInv, TypeOK, Session
    <3>4. QED BY <2>1, <2>5, <3>2, <3>3 DEF StaleOcc
  <2>8. QED BY <2>4, <2>5, <2>6, <2>7
<1>5. QED BY <1>1, <1>3, <1>4 DEF Fit

\* Whoever holds a slot, the deadline of the hold is fixed when it begins, no request
\* puts it off, and the first maintenance that succeeds and began at the deadline or later
\* ends it (runMaintenance, runReservationMaintenance).
THEOREM HoldsRunOut ==
  Spec /\ [][CancelsLive]_vars => [][\A x \in Slots : HoldRunsOut(x)]_vars
<1>1. FInv /\ [Next]_vars /\ [CancelsLive]_vars => [\A x \in Slots : HoldRunsOut(x)]_vars
  <2> SUFFICES ASSUME FInv, Next, CancelsLive
      PROVE  \A x \in Slots : HoldRunsOut(x)
    OBVIOUS
  <2>1. FInv' /\ \E C \in SUBSET Contexts : Effect(C) /\ Timely(C)
    BY EveryStep, FitStep DEF FInv
  <2>2. QED BY <2>1, HoldStep
<1>2. QED BY <1>1, FitInvariance, PTL DEF Spec

-----------------------------------------------------------------------------
(* The agenda implements SlotOccupancy. *)

using == {p \in Slots \X Contexts :
            IF p[2] \in Reservations THEN p[2] \in ReservedBy(p[1])
            ELSE p[1] = p[2] /\ OccurrenceOn(p[1])}
ended == {r \in Reservations : res[r].status = "CANCELLED"} \cup
         {x \in Slots : occ[x].status = "RELEASED"}

\* The two kinds of use, one by one.
LEMMA UsingPairs ==
  /\ \A x \in Slots, r \in Reservations :
       /\ <<x, r>> \in using <=> Uses(res, r, x)
       /\ <<x, r>> \in using' <=> Uses(res', r, x)
  /\ \A x, y \in Slots :
       /\ <<x, y>> \in using <=>
            x = y /\ occ[x].status \in {"PENDING_PAYMENT", "CONFIRMED"}
       /\ <<x, y>> \in using' <=>
            x = y /\ occ'[x].status \in {"PENDING_PAYMENT", "CONFIRMED"}
  /\ using \subseteq Slots \X Contexts /\ using' \subseteq Slots \X Contexts
BY IdsAssumption DEF using, ReservedBy, OccurrenceOn, Uses, Contexts

LEMMA EndedRows ==
  /\ \A r \in Reservations : /\ r \in ended <=> res[r].status = "CANCELLED"
                             /\ r \in ended' <=> res'[r].status = "CANCELLED"
  /\ \A x \in Slots : /\ x \in ended <=> occ[x].status = "RELEASED"
                      /\ x \in ended' <=> occ'[x].status = "RELEASED"
  /\ ended \subseteq Contexts /\ ended' \subseteq Contexts
BY IdsAssumption DEF ended, Contexts

\* No use of a slot that is neither on hold nor reserved.
LEMMA FreeSlot ==
  ASSUME FInv, NEW x \in Slots, slot[x].status \notin {"HOLD", "RESERVED"},
         NEW q \in using, q[1] = x
  PROVE  FALSE
<1>1. Fit(slot, res, occ, x)
  BY DEF FInv, Fits
<1>2. q = <<x, q[2]>> /\ q[2] \in Contexts
  BY UsingPairs
<1>3. CASE q[2] \in Reservations
  <2>1. Uses(res, q[2], x)
    BY <1>2, <1>3, UsingPairs
  <2>2. QED BY <1>1, <1>3, <2>1 DEF Fit, Uses, Active
<1>4. CASE q[2] \in Slots
  <2>1. occ[x].status \in {"PENDING_PAYMENT", "CONFIRMED"}
    BY <1>2, <1>4, UsingPairs
  <2>2. QED BY <1>1, <2>1 DEF Fit
<1>5. QED BY <1>2, <1>3, <1>4 DEF Contexts

\* A slot has one use.
LEMMA OneUseNext ==
  ASSUME Fits(slot', res', occ'), NEW p \in using', NEW q \in using', q[1] = p[1]
  PROVE  q = p
<1> DEFINE x == p[1]
<1>1. p = <<x, p[2]>> /\ q = <<x, q[2]>> /\ x \in Slots /\ p[2] \in Contexts /\ q[2] \in Contexts
  BY UsingPairs
<1>2. Fit(slot', res', occ', x)
  BY <1>1 DEF Fits
<1> HIDE DEF x
<1>3. CASE p[2] \in Reservations /\ q[2] \in Reservations
  BY <1>1, <1>2, <1>3, UsingPairs DEF Fit
<1>4. CASE p[2] \in Slots /\ q[2] \in Slots
  BY <1>1, <1>4, UsingPairs
<1>5. CASE p[2] \in Slots /\ q[2] \in Reservations
  BY <1>1, <1>2, <1>5, UsingPairs DEF Fit
<1>6. CASE p[2] \in Reservations /\ q[2] \in Slots
  BY <1>1, <1>2, <1>6, UsingPairs DEF Fit
<1>7. QED BY <1>1, <1>3, <1>4, <1>5, <1>6 DEF Contexts

\* A use begins on a free slot, and never for the second time.
LEMMA UseBegins ==
  ASSUME FInv, Fits(slot', res', occ'), NEW C, Effect(C), Timely(C),
         NEW p \in using' \ using
  PROVE  /\ p[2] \notin ended
         /\ \A q \in using \cup using' : q # p => q[1] # p[1] /\ q[2] # p[2]
<1> DEFINE x == p[1]
           u == p[2]
<1>1. p = <<x, u>> /\ x \in Slots /\ u \in Contexts
  BY UsingPairs
<1> HIDE DEF x, u
<1>2. CASE u \in Reservations
  <2>1. Uses(res', u, x) /\ ~Uses(res, u, x)
    BY <1>1, <1>2, UsingPairs
  <2>2. res[u].status \notin Active
    <3>1. res[u].status \in Active => res'[u].slot = res[u].slot
      BY <1>2 DEF Effect, Moves, ResMoves, Active
    <3>2. QED BY <2>1, <3>1 DEF Uses
  <2>3. res[u].status = "NONE" /\ slot[x].status = "AVAILABLE"
    BY <1>2, <2>1, <2>2 DEF Effect, Moves, ResMoves, Timely, Uses
  <2>4. u \notin ended
    BY <1>2, <2>3, EndedRows
  <2>5. ASSUME NEW q \in using, q[2] = u PROVE FALSE
    <3>1. q = <<q[1], u>> /\ q[1] \in Slots
      BY <2>5, UsingPairs
    <3>2. Uses(res, u, q[1])
      BY <1>2, <3>1, UsingPairs
    <3>3. QED BY <2>2, <3>2 DEF Uses
  <2>6. ASSUME NEW q \in using', q[2] = u PROVE q = p
    <3>1. q = <<q[1], u>> /\ q[1] \in Slots
      BY <2>6, UsingPairs
    <3>2. Uses(res', u, q[1])
      BY <1>2, <3>1, UsingPairs
    <3>3. QED BY <1>1, <2>1, <3>1, <3>2 DEF Uses
  <2>7. ASSUME NEW q \in using, q[1] = x PROVE FALSE
    BY <1>1, <2>3, <2>7, FreeSlot
  <2>8. ASSUME NEW q \in using', q[1] = x PROVE q = p
    BY <2>8, OneUseNext DEF x
  <2>9. QED BY <2>4, <2>5, <2>6, <2>7, <2>8 DEF x, u
<1>3. CASE u \in Slots
  <2>1. /\ x = u /\ occ'[x].status \in {"PENDING_PAYMENT", "CONFIRMED"}
        /\ occ[x].status \notin {"PENDING_PAYMENT", "CONFIRMED"}
    BY <1>1, <1>3, UsingPairs
  <2>2. slot[x].status = "NONE" /\ occ[x].status # "RELEASED"
    BY <1>1, <2>1 DEF Effect, Moves, OccMoves
  <2>3. u \notin ended
    BY <1>3, <2>1, <2>2, EndedRows
  <2>4. ASSUME NEW q \in using \cup using', q[2] = u PROVE q[1] = x
    BY <1>3, <2>1, <2>4, UsingPairs
  <2>5. ASSUME NEW q \in using, q[1] = x PROVE FALSE
    BY <1>1, <2>2, <2>5, FreeSlot
  <2>6. ASSUME NEW q \in using', q[1] = x PROVE q = p
    BY <2>6, OneUseNext DEF x
  <2>7. QED BY <2>3, <2>4, <2>5, <2>6 DEF x, u
<1>4. QED BY <1>1, <1>2, <1>3 DEF Contexts

\* What has ended is what had ended before and every use that is over.
LEMMA UseEnds ==
  ASSUME FInv, AInv', NEW C, Effect(C), Timely(C)
  PROVE  ended' = ended \cup {p[2] : p \in using \ using'}
<1>0. Sound(slot, res, occ) /\ Sound(slot', res', occ')
  BY InvSound DEF FInv, Effect
<1>1. \A r \in Reservations : res[r].status \in ResStatus /\ res'[r].status \in ResStatus
  BY <1>0 DEF Sound, Tables, ResRow
<1>2. \A x \in Slots : occ[x].status \in OccStatus /\ occ'[x].status \in OccStatus
  BY <1>0 DEF Sound, Tables, OccRow
<1>3. ASSUME NEW r \in Reservations
      PROVE  r \in ended' <=> r \in ended \/ \E p \in using \ using' : p[2] = r
  <2>1. CASE res[r].status = "CANCELLED"
    BY <2>1, EndedRows DEF Effect, Moves, ResMoves
  <2>2. CASE res[r].status = "NONE"
    <3>1. res'[r].status # "CANCELLED"
      BY <2>2 DEF Effect, Moves, ResMoves, Timely, Active
    <3>2. ASSUME NEW p \in using, p[2] = r PROVE FALSE
      <4>1. p = <<p[1], r>> /\ p[1] \in Slots
        BY <3>2, UsingPairs
      <4>2. Uses(res, r, p[1])
        BY <4>1, UsingPairs
      <4>3. QED BY <2>2, <4>2 DEF Uses, Active
    <3>3. QED BY <2>2, <3>1, <3>2, EndedRows
  <2>3. CASE res[r].status \in Active
    <3> DEFINE y == res[r].slot
    <3>1. y \in Slots
      BY <1>0, <2>3 DEF Sound, Tied, Active
    <3>2. /\ res'[r].slot = y /\ res'[r].status # "NONE"
      BY <2>3 DEF Effect, Moves, ResMoves, Active
    <3> HIDE DEF y
    <3>3. <<y, r>> \in using
      BY <2>3, <3>1, UsingPairs DEF Uses, y
    <3>4. \A p \in using : p[2] = r => p = <<y, r>>
      <4> SUFFICES ASSUME NEW p \in using, p[2] = r PROVE p = <<y, r>>
        OBVIOUS
      <4>1. p = <<p[1], r>> /\ p[1] \in Slots
        BY UsingPairs
      <4>2. Uses(res, r, p[1])
        BY <4>1, UsingPairs
      <4>3. QED BY <4>1, <4>2 DEF Uses, y
    <3>5. <<y, r>> \in using' <=> res'[r].status \in Active
      BY <3>1, <3>2, UsingPairs DEF Uses
    <3>6. res'[r].status = "CANCELLED" <=> res'[r].status \notin Active
      BY <1>1, <3>2 DEF ResStatus, Active
    <3>7. r \notin ended
      BY <2>3, EndedRows DEF Active
    <3>8. <<y, r>>[2] = r
      OBVIOUS
    <3>9. QED BY <3>3, <3>4, <3>5, <3>6, <3>7, <3>8, EndedRows
  <2>4. QED BY <1>1, <2>1, <2>2, <2>3 DEF ResStatus, Active
<1>4. ASSUME NEW x \in Slots
      PROVE  x \in ended' <=> x \in ended \/ \E p \in using \ using' : p[2] = x
  <2>1. \A p \in using : p[2] = x => p = <<x, x>>
    <3> SUFFICES ASSUME NEW p \in using, p[2] = x PROVE p = <<x, x>>
      OBVIOUS
    <3>1. p = <<p[1], x>> /\ p[1] \in Slots
      BY UsingPairs
    <3>2. QED BY <3>1, UsingPairs
  <2>2. (\E p \in using \ using' : p[2] = x) <=> <<x, x>> \in using \ using'
    <3>1. <<x, x>>[2] = x
      OBVIOUS
    <3>2. QED BY <2>1, <3>1
  <2>3. <<x, x>> \in using \ using' <=>
          /\ occ[x].status \in {"PENDING_PAYMENT", "CONFIRMED"}
          /\ occ'[x].status \notin {"PENDING_PAYMENT", "CONFIRMED"}
    BY UsingPairs
  <2>4. /\ occ[x].status # "NONE" => occ'[x].status # "NONE"
        /\ occ[x].status \in {"RELEASED", "CONFIRMED"} => occ'[x] = occ[x]
        /\ occ'[x].status = "RELEASED" => occ[x].status \in {"RELEASED", "PENDING_PAYMENT"}
    BY DEF Effect, Moves, OccMoves
  <2>5. QED BY <1>2, <2>2, <2>3, <2>4, EndedRows DEF OccStatus
<1>5. \A p \in using \ using' : p[2] \in Contexts
  BY UsingPairs
<1>6. QED BY <1>3, <1>4, <1>5, EndedRows DEF Contexts

LEMMA OccupancyStep ==
  ASSUME FInv, [Next]_vars, CancelsLive
  PROVE  [Occupancy!Next]_<<using, ended>>
<1>1. AInv' /\ FInv' /\ \E C \in SUBSET Contexts : Effect(C) /\ Timely(C)
  BY EveryStep, FitStep DEF FInv
<1>2. PICK C \in SUBSET Contexts : Effect(C) /\ Timely(C)
  BY <1>1
<1>3. Fits(slot', res', occ')
  BY <1>1 DEF FInv
<1>4. using' \subseteq Slots \X Contexts
  BY UsingPairs
<1>5. ended' = ended \cup {p[2] : p \in using \ using'}
  BY <1>1, <1>2, UseEnds
<1>6. \A p \in using' \ using :
        /\ p[2] \notin ended
        /\ \A q \in using \cup (using' \ using) : q # p => q[1] # p[1] /\ q[2] # p[2]
  BY <1>2, <1>3, UseBegins
<1>7. QED BY <1>4, <1>5, <1>6 DEF Occupancy!Next, using, ended

LEMMA UnchangedUses ==
  ASSUME UNCHANGED vars
  PROVE  UNCHANGED <<using, ended>>
<1>1. UNCHANGED <<slot, res, occ>>
  BY DEF vars, tables
<1>2. UNCHANGED using
  BY <1>1 DEF using, ReservedBy, OccurrenceOn
<1>3. UNCHANGED ended
  BY <1>1 DEF ended
<1>4. QED BY <1>2, <1>3

LEMMA OccupancyInit ==
  ASSUME Init
  PROVE  Occupancy!Init
<1>1. \A r \in Reservations : res[r].status = "NONE"
  BY DEF Init
<1>2. \A x \in Slots : occ[x].status = "NONE"
  BY DEF Init
<1>3. QED BY <1>1, <1>2 DEF Occupancy!Init, ReservedBy, OccurrenceOn, Active, Contexts

\* Every step of the agenda begins and ends uses the way SlotOccupancy allows: each
\* slot has one use at a time, begun when the slot was free, and what has ended
\* never begins again.
THEOREM AgendaRefinesOccupancy == Spec /\ [][CancelsLive]_vars => SlotsOccupied
<1>1. Init => Occupancy!Init
  BY OccupancyInit
<1>2. FInv /\ [Next]_vars /\ [CancelsLive]_vars => [Occupancy!Next]_<<using, ended>>
  <2>1. CASE UNCHANGED vars
    BY <2>1, UnchangedUses
  <2>2. CASE ~UNCHANGED vars
    BY <2>2, OccupancyStep
  <2>3. QED BY <2>1, <2>2
<1>3. QED BY <1>1, <1>2, FitInvariance, PTL DEF Spec, SlotsOccupied, Occupancy!Spec, using, ended

-----------------------------------------------------------------------------
(* When no event is cancelled twice. *)

\* No two cancellations of one event are under way at once.
CancelsApart ==
  \A s, t \in Sessions :
    /\ sess[s].op = "cancelEvent" /\ sess[t].op = "cancelEvent"
    /\ sess[s].target = sess[t].target
    => s = t

\* A request that goes on with what it is about, or ends, is no new cancellation.
NoNewCancel ==
  \A t \in Sessions : sess'[t].op = "cancelEvent" =>
    sess[t].op = "cancelEvent" /\ sess'[t].target = sess[t].target

LEMMA NoNewSame ==
  ASSUME AInv, NEW s \in Sessions, NEW n, Become(s, n),
         n.op = "cancelEvent" => sess[s].op = "cancelEvent" /\ n.target = sess[s].target
  PROVE  NoNewCancel
<1>1. sess'[s] = n /\ \A t \in Sessions \ {s} : sess'[t] = sess[t]
  BY DEF Become, AInv, TypeOK
<1>2. QED BY <1>1 DEF NoNewCancel

LEMMA NoNewFinish ==
  ASSUME AInv, NEW s \in Sessions, Finish(s)
  PROVE  NoNewCancel /\ sess'[s].op = "none"
<1>1. IdleSession.op = "none" /\ Become(s, IdleSession)
  BY DEF Finish, IdleSession
<1>2. sess'[s].op = "none"
  BY <1>1 DEF Become, AInv, TypeOK
<1>3. QED BY <1>1, <1>2, NoNewSame

\* Only StartCancelEvent begins a cancellation, and only CancelEvent, ending the
\* request, makes a live event another thing.
LEMMA CancelSteps ==
  ASSUME AInv, [Next]_vars
  PROVE  \/ \E s \in Sessions, r \in Reservations : StartCancelEvent(s, r)
         \/ \E s \in Sessions : /\ CancelEvent(s) /\ NoNewCancel /\ sess'[s].op = "none"
                                 /\ event' = [event EXCEPT ![sess[s].target] = "CANCELLED"]
         \/ NoNewCancel /\ \A r \in Reservations : event[r] = "LIVE" => event'[r] = "LIVE"
<1> DEFINE Calm == NoNewCancel /\ \A r \in Reservations : event[r] = "LIVE" => event'[r] = "LIVE"
<1>1. ASSUME NEW s \in Sessions, NEW op, NEW phase, NEW target, NEW type,
             Start(s, op, phase, target, type), op # "cancelEvent"
      PROVE  Calm
  <2> DEFINE n == [IdleSession EXCEPT !.op = op, !.phase = phase, !.target = target,
                                      !.type = type, !.began = now]
  <2>1. Become(s, n) /\ n.op = op /\ event' = event
    BY <1>1 DEF Start, tables, IdleSession
  <2>2. QED BY <1>1, <2>1, NoNewSame
<1>2. ASSUME NEW s \in Sessions, Arrive(s), ~ \E r \in Reservations : StartCancelEvent(s, r)
      PROVE  Calm
  <2>1. \E op \in {"list", "reserve", "cancel", "pay", "hook", "slot"} :
          \E phase, target, type : Start(s, op, phase, target, type)
    BY <1>2 DEF Arrive, StartList, StartReserve, StartCancel, StartPay, StartHook, StartSlot
  <2>2. QED BY <1>1, <2>1
<1>3. ASSUME NEW s \in Sessions, Maintain(s) \/ MaintainFails(s)
      PROVE  Calm
  <2>1. event' = event /\ AfterMaintenance(s)
    BY <1>3 DEF Maintain, MaintainFails, tables
  <2>2. CASE sess[s].op = "list"
    BY <2>1, <2>2, NoNewFinish DEF AfterMaintenance
  <2>3. CASE sess[s].op # "list"
    <3> DEFINE n == [sess[s] EXCEPT !.phase = "body"]
    <3>1. Become(s, n)
      BY <2>1, <2>3 DEF AfterMaintenance
    <3>2. n.op = sess[s].op /\ n.target = sess[s].target
      BY DEF AInv, TypeOK, Session
    <3>3. QED BY <2>1, <3>1, <3>2, NoNewSame
  <2>4. QED BY <2>2, <2>3
<1>4. ASSUME NEW s \in Sessions, Look(s)
      PROVE  Calm
  <2>1. PICK free : Become(s, [sess[s] EXCEPT !.phase = "body", !.free = free])
    BY <1>4 DEF Look
  <2> DEFINE n == [sess[s] EXCEPT !.phase = "body", !.free = free]
  <2>2. n.op = sess[s].op /\ n.target = sess[s].target /\ event' = event
    BY <1>4 DEF AInv, TypeOK, Session, Look, tables
  <2>3. QED BY <2>1, <2>2, NoNewSame
<1>5. ASSUME NEW s \in Sessions,
             \/ \E r \in Reservations : Reserve(s, r)
             \/ ReserveRefused(s) \/ Cancel(s) \/ CancelRefused(s) \/ Pay(s) \/ PayRefused(s)
             \/ HookReservation(s) \/ HookOccurrence(s) \/ HookRepeated(s) \/ HookRefused(s)
             \/ \E y \in Slots : CreateSlot(s, y)
             \/ CreateSlotRefused(s) \/ Crash(s)
      PROVE  Calm
  <2>1. Finish(s) /\ event' = event
    BY <1>5 DEF Reserve, ReserveRefused, Cancel, CancelRefused, Pay, PayRefused, HookReservation,
                HookOccurrence, HookRepeated, HookRefused, CreateSlot, CreateSlotRefused, Crash,
                Abandon, tables
  <2>2. QED BY <2>1, NoNewFinish
<1>6. ASSUME NEW s \in Sessions, CancelEvent(s)
      PROVE  /\ NoNewCancel /\ sess'[s].op = "none"
             /\ event' = [event EXCEPT ![sess[s].target] = "CANCELLED"]
  BY <1>6, NoNewFinish DEF CancelEvent
<1>7. ASSUME NEW r \in Reservations, CreateEvent(r)
      PROVE  Calm
  <2>1. sess' = sess /\ event' = [event EXCEPT ![r] = "LIVE"]
    BY <1>7 DEF CreateEvent
  <2>2. \A q \in Reservations : event[q] = "LIVE" => event'[q] = "LIVE"
    BY <2>1 DEF AInv, TypeOK
  <2>3. QED BY <2>1, <2>2 DEF NoNewCancel
<1>8. CASE \/ \E c \in Contexts, st \in {"FAILED", "CANCELLED"} : MarkNonPaid(c, st)
           \/ \E p \in Policies : UpdatePolicy(p)
           \/ Tick \/ UNCHANGED vars
  <2>1. sess' = sess /\ event' = event
    BY <1>8 DEF MarkNonPaid, UpdatePolicy, Tick, vars, tables
  <2>2. QED BY <2>1 DEF NoNewCancel
<1>9. QED
  <2>1. ASSUME NEW s \in Sessions, Progress(s) \/ Crash(s), ~CancelEvent(s) PROVE Calm
    BY <1>3, <1>4, <1>5, <2>1 DEF Progress
  <2>2. QED BY <1>2, <1>6, <1>7, <1>8, <2>1 DEF Next

\* The event of each cancellation under way.
LiveTargets ==
  \A s \in Sessions : sess[s].op = "cancelEvent" => event[sess[s].target] = "LIVE"

LEMMA StartedCancel ==
  ASSUME AInv, NEW s \in Sessions, NEW r \in Reservations, StartCancelEvent(s, r)
  PROVE  /\ event' = event /\ event[r] = "LIVE"
         /\ sess'[s].op = "cancelEvent" /\ sess'[s].target = r
         /\ \A t \in Sessions \ {s} : sess'[t] = sess[t]
<1> DEFINE n == [IdleSession EXCEPT !.op = "cancelEvent", !.phase = "body", !.target = r,
                                    !.type = "SINGLE", !.began = now]
<1>1. Become(s, n) /\ n.op = "cancelEvent" /\ n.target = r /\ event' = event /\ event[r] = "LIVE"
  BY DEF StartCancelEvent, Start, tables, IdleSession
<1> HIDE DEF n
<1>2. QED BY <1>1 DEF Become, AInv, TypeOK

LEMMA LiveTargetsStep ==
  ASSUME AInv, [Next]_vars, CancelsApart, LiveTargets
  PROVE  LiveTargets'
<1>0. \A s \in Sessions : sess[s].op = "cancelEvent" => sess[s].target \in Reservations
  BY DEF AInv, SessShape
<1>1. CASE \E s \in Sessions, r \in Reservations : StartCancelEvent(s, r)
  BY <1>1, StartedCancel DEF LiveTargets
<1>2. ASSUME NEW s \in Sessions, NoNewCancel, sess[s].op = "cancelEvent", sess'[s].op = "none",
             event' = [event EXCEPT ![sess[s].target] = "CANCELLED"]
      PROVE  LiveTargets'
  <2> SUFFICES ASSUME NEW t \in Sessions, sess'[t].op = "cancelEvent"
      PROVE  event'[sess'[t].target] = "LIVE"
    BY DEF LiveTargets
  <2>1. t # s /\ sess[t].op = "cancelEvent" /\ sess'[t].target = sess[t].target
    BY <1>2 DEF NoNewCancel
  <2>2. sess[t].target # sess[s].target /\ event[sess[t].target] = "LIVE"
    BY <1>2, <2>1 DEF CancelsApart, LiveTargets
  <2>3. QED BY <1>0, <1>2, <2>1, <2>2 DEF AInv, TypeOK
<1>3. CASE NoNewCancel /\ \A r \in Reservations : event[r] = "LIVE" => event'[r] = "LIVE"
  BY <1>0, <1>3 DEF NoNewCancel, LiveTargets
<1>4. QED BY <1>1, <1>2, <1>3, CancelSteps DEF CancelEvent, At

\* The unlocked read of cancelEvent does no harm as long as no two cancellations of
\* one event are under way at once, however many cancel different ones: the theorems
\* above hold of all such executions.
THEOREM ApartIsEnough == Spec /\ []CancelsApart => [][CancelsLive]_vars
<1>1. Init => LiveTargets
  BY DEF Init, IdleSession, LiveTargets
<1>2. AInv /\ CancelsApart /\ LiveTargets /\ [Next]_vars => LiveTargets'
  BY LiveTargetsStep
<1>3. LiveTargets => CancelsLive
  BY DEF LiveTargets, CancelsLive, CancelEvent, At
<1>4. QED BY <1>1, <1>2, <1>3, ArenaInvariance, PTL DEF Spec

\* The bound of the run agenda gives only executions of that kind.
THEOREM BoundKeepsApart ==
  ASSUME MaxCancels <= 1
  PROVE  Spec => []CancelsApart
<1> DEFINE One == \A s, t \in Sessions :
                    sess[s].op = "cancelEvent" /\ sess[t].op = "cancelEvent" => s = t
<1>1. Init => One
  BY DEF Init, IdleSession
<1>2. ASSUME AInv, One, [Next]_vars PROVE One'
  <2>1. ASSUME NEW s \in Sessions, NEW r \in Reservations, StartCancelEvent(s, r)
        PROVE  One'
    <3> DEFINE N == {t \in Sessions : sess[t].op = "cancelEvent"}
    <3>1. IsFiniteSet(N)
      BY IdsAssumption, FS_Subset
    <3>2. Cardinality(N) \in Nat /\ Cardinality(N) < MaxCancels
      BY <2>1, <3>1, FS_CardinalityType DEF StartCancelEvent
    <3>3. Cardinality(N) = 0
      BY <3>2, NumbersAssumption
    <3>4. N = {}
      BY <3>1, <3>3, FS_EmptySet
    <3>5. \A t \in Sessions \ {s} : sess'[t].op # "cancelEvent"
      BY <1>2, <2>1, <3>4, StartedCancel
    <3>6. QED BY <3>5
  <2>2. CASE NoNewCancel
    BY <1>2, <2>2 DEF NoNewCancel
  <2>3. QED BY <1>2, <2>1, <2>2, CancelSteps
<1>3. One => CancelsApart
  BY DEF CancelsApart
<1>4. AInv /\ One /\ [Next]_vars => One'
  BY <1>2
<1> HIDE DEF One
<1>5. QED BY <1>1, <1>3, <1>4, ArenaInvariance, PTL DEF Spec

-----------------------------------------------------------------------------
(* What the agenda's promise is worth. *)

\* SlotOccupancy suffices: a slot that is given only when it is free, and a use that never
\* begins again, leave no slot promised twice, whatever the rows of the tables are.
THEOREM OccupancySuffices == SlotsOccupied => []OneUsePerSlot
<1> DEFINE Single == \A p, q \in using : p[1] = q[1] => p = q
<1>1. Occupancy!Init => Single
  BY DEF Occupancy!Init, using
<1>2. Single /\ [Occupancy!Next]_<<using, ended>> => Single'
  <2>1. ASSUME Single, Occupancy!Next, NEW p \in using', NEW q \in using', p # q
        PROVE  p[1] # q[1]
    BY <2>1 DEF Occupancy!Next, using
  <2>2. ASSUME Single, UNCHANGED <<using, ended>>
        PROVE  Single'
    BY <2>2
  <2>3. QED BY <2>1, <2>2
<1>3. Single => OneUsePerSlot
  <2> SUFFICES ASSUME Single, NEW x \in Slots
               PROVE  /\ \A r, q \in ReservedBy(x) : r = q
                      /\ OccurrenceOn(x) => ReservedBy(x) = {}
    BY DEF OneUsePerSlot
  <2>1. \A r \in ReservedBy(x) : <<x, r>> \in using /\ r \in Reservations
    BY DEF ReservedBy, Contexts, using
  <2>2. OccurrenceOn(x) => <<x, x>> \in using /\ x \notin Reservations
    BY IdsAssumption DEF Contexts, using
  <2>3. QED BY <2>1, <2>2
<1>4. QED BY <1>1, <1>2, <1>3, PTL DEF SlotsOccupied, Occupancy!Spec, using, ended

=============================================================================
