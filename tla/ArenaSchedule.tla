--------------------------- MODULE ArenaSchedule ---------------------------
(***************************************************************************)
(* The agenda of an arena: slots, the reservations of slots, the weekly    *)
(* occurrences a recurring reservation generates, the payments of both,    *)
(* and the event a confirmed reservation is turned into.                   *)
(*                                                                         *)
(* A transaction locks every row it reads to decide or writes, so it takes *)
(* effect in one step, the moment it has its last lock; what it computed   *)
(* before that moment is in its session: now() is the time it began, the   *)
(* overlap query that precedes an INSERT locks nothing, and cancelEvent    *)
(* reads the event before its transaction.  A slot occupies one cell of    *)
(* the agenda, a lane (a space and a time of the week) in one week; two    *)
(* slots overlap when they are in the same cell.                           *)
(***************************************************************************)
EXTENDS Integers, FiniteSets

CONSTANTS
  Slots, Reservations,  \* row ids; bounds, each id is inserted once
  Sessions,             \* requests served concurrently
  Lanes, NoLane, NoTarget,
  FirstSlots,           \* the slot rows at the start
  LastWeek,             \* bound: no slot is created after this week
  WeekLength,           \* in clock ticks, as the next three
  TTL,                  \* RESERVATION_TTL_SECONDS
  DueLead,              \* 24 hours
  FirstPolicy,          \* the arena's policy at the start
  Policies,             \* the policies its owner may give it later
  Requests,             \* the operations requested, a bound on the environment
  NewCells,             \* the cells new slots are asked for, a bound as well
  MaxCancels,           \* bound on concurrent cancellations of events
  MaxTime               \* bound on the clock

Op == {"list", "reserve", "cancel", "pay", "hook", "slot", "cancelEvent"}
SlotStatus == {"NONE", "AVAILABLE", "HOLD", "RESERVED"}
SlotRow == [status : SlotStatus, lane : Lanes \cup {NoLane}, week : Nat]
\* min_reservation_payment_percent is not zero, allow_recurring (the slot's flag
\* of that kind included), min_advance_hours
Policy == [charges : BOOLEAN, recurring : BOOLEAN, advance : Nat]

ASSUME IdsAssumption ==
  /\ IsFiniteSet(Slots) /\ IsFiniteSet(Reservations) /\ IsFiniteSet(Sessions)
  /\ Slots \cap Reservations = {}
  /\ NoTarget \notin Slots \cup Reservations /\ NoLane \notin Lanes
ASSUME FirstAssumption ==
  /\ FirstSlots \in [Slots -> SlotRow]
  /\ \A x \in Slots : FirstSlots[x].status \in {"NONE", "AVAILABLE"}
  /\ \A x \in Slots : FirstSlots[x].status = "AVAILABLE" => FirstSlots[x].lane \in Lanes
ASSUME NumbersAssumption ==
  /\ LastWeek \in Nat /\ WeekLength \in Nat \ {0} /\ TTL \in Nat \ {0}
  /\ DueLead \in Nat /\ MaxTime \in Nat /\ MaxCancels \in Nat
ASSUME ChoicesAssumption ==
  /\ FirstPolicy \in Policy /\ Policies \subseteq Policy /\ Requests \subseteq Op
  /\ NewCells \subseteq Lanes \X (0 .. LastWeek)

VARIABLES
  now,      \* the clock
  policy,   \* the arena's row of arena_policies
  slot,     \* arena_slots
  res,      \* reservations
  occ,      \* reservation_occurrences, by the slot each one is given
  payment,  \* status of the one payment a reservation or occurrence can have
  event,    \* the event created on a reservation
  sess      \* what each session is doing

tables == <<slot, res, occ, payment, event>>
vars == <<now, policy, slot, res, occ, payment, event, sess>>

Contexts == Reservations \cup Slots
Cells == Lanes \X (0 .. LastWeek)
Type == {"SINGLE", "RECURRING"}
ResStatus == {"NONE", "PENDING", "CONFIRMED", "CANCELLED", "CONSUMED"}
ResRow == [status : ResStatus, slot : Slots \cup {NoTarget}, type : Type, expires : Nat,
           charged : BOOLEAN]  \* required_payment_amount is not zero
OccStatus == {"NONE", "PENDING_PAYMENT", "CONFIRMED", "RELEASED"}
OccRow == [status : OccStatus, of : Reservations \cup {NoTarget}]
PaymentStatus == {"NONE", "PENDING", "PAID", "FAILED", "CANCELLED"}
EventStatus == {"NONE", "LIVE", "CANCELLED"}
Session == [op : Op \cup {"none"}, phase : {"idle", "maintain", "look", "body"},
            target : Contexts \cup Cells \cup {NoTarget}, type : Type,
            began : Nat, free : BOOLEAN]

TypeOK ==
  /\ now \in Nat /\ policy \in Policy
  /\ slot \in [Slots -> SlotRow]
  /\ res \in [Reservations -> ResRow]
  /\ occ \in [Slots -> OccRow]
  /\ payment \in [Contexts -> PaymentStatus]
  /\ event \in [Reservations -> EventStatus]
  /\ sess \in [Sessions -> Session]

IdleSession == [op |-> "none", phase |-> "idle", target |-> NoTarget,
                type |-> "SINGLE", began |-> 0, free |-> FALSE]

Init ==
  /\ now = 0 /\ policy = FirstPolicy
  /\ slot = FirstSlots
  /\ res = [r \in Reservations |->
              [status |-> "NONE", slot |-> NoTarget, type |-> "SINGLE", expires |-> 0,
               charged |-> FALSE]]
  /\ occ = [x \in Slots |-> [status |-> "NONE", of |-> NoTarget]]
  /\ payment = [c \in Contexts |-> "NONE"]
  /\ event = [r \in Reservations |-> "NONE"]
  /\ sess = [s \in Sessions |-> IdleSession]

Become(s, r) == sess' = [sess EXCEPT ![s] = r]
Finish(s) == Become(s, IdleSession)
WithStatus(f, x, st) == [z \in DOMAIN f |-> IF z = x THEN [f[z] EXCEPT !.status = st] ELSE f[z]]
At(s, op, phase) == sess[s].op = op /\ sess[s].phase = phase

\* A request that ends having changed nothing: refused, rolled back or lost.
Abandon(s) == Finish(s) /\ UNCHANGED <<now, policy, tables>>

-----------------------------------------------------------------------------
(* Maintenance: expireStaleReservations and releaseStaleReservationOccurrences,
   as of time t. *)

StartOf(week) == week * WeekLength
Due(x) == StartOf(slot[x].week) - DueLead

\* Mutated forms: a row at its deadline is not stale; a row is stale too early.
StaleRes_Strict(t) == {r \in Reservations : res[r].status = "PENDING" /\ res[r].expires < t}
StaleOcc_Early(t) == {x \in Slots : occ[x].status = "PENDING_PAYMENT" /\ Due(x) <= t + 1}
StaleRes(t) == {r \in Reservations : res[r].status = "PENDING" /\ res[r].expires <= t}
StaleOcc(t) == {x \in Slots : occ[x].status = "PENDING_PAYMENT" /\ Due(x) <= t}

Freed(t) ==
  {x \in StaleOcc(t) \cup {res[r].slot : r \in StaleRes(t)} : slot[x].status = "HOLD"}

\* The tables as a transaction that began at t sees and leaves them.
ResAt(t) == [r \in Reservations |-> IF r \in StaleRes(t)
                                    THEN [res[r] EXCEPT !.status = "CANCELLED"] ELSE res[r]]
\* Mutated form: a status the table does not have.
OccAt_Expired(t) == [x \in Slots |-> IF x \in StaleOcc(t)
                                     THEN [occ[x] EXCEPT !.status = "EXPIRED"] ELSE occ[x]]
OccAt(t) == [x \in Slots |-> IF x \in StaleOcc(t)
                             THEN [occ[x] EXCEPT !.status = "RELEASED"] ELSE occ[x]]
SlotAt(t) == [x \in Slots |-> IF x \in Freed(t)
                              THEN [slot[x] EXCEPT !.status = "AVAILABLE"] ELSE slot[x]]

Maintained(t) == res' = ResAt(t) /\ occ' = OccAt(t) /\ slot' = SlotAt(t)

\* The transaction of its own a list request or createReservation begins with.
AfterMaintenance(s) ==
  IF sess[s].op = "list" THEN Finish(s)
  ELSE Become(s, [sess[s] EXCEPT !.phase = "body"])

Maintain(s) ==
  /\ sess[s].phase = "maintain"
  /\ Maintained(sess[s].began)
  /\ AfterMaintenance(s)
  /\ UNCHANGED <<now, policy, payment, event>>

\* Its errors are swallowed.
MaintainFails(s) ==
  sess[s].phase = "maintain" /\ AfterMaintenance(s) /\ UNCHANGED <<now, policy, tables>>

-----------------------------------------------------------------------------
(* Requests arrive. *)

Start(s, op, phase, target, type) ==
  /\ sess[s].phase = "idle" /\ op \in Requests
  /\ Become(s, [IdleSession EXCEPT !.op = op, !.phase = phase, !.target = target,
                                   !.type = type, !.began = now])
  /\ UNCHANGED <<now, policy, tables>>

\* Bound: a row is left for the reservation.
RowLeft ==
  Cardinality({r \in Reservations : res[r].status = "NONE"}) >
  Cardinality({t \in Sessions : sess[t].op = "reserve"})

StartList(s) == Start(s, "list", "maintain", NoTarget, "SINGLE")
StartReserve(s, x, type) ==
  RowLeft /\ slot[x].status # "NONE" /\ Start(s, "reserve", "maintain", x, type)
StartCancel(s, r) == res[r].status # "NONE" /\ Start(s, "cancel", "body", r, "SINGLE")
StartPay(s, c) ==
  /\ IF c \in Reservations THEN res[c].status # "NONE" ELSE occ[c].status # "NONE"
  /\ Start(s, "pay", "body", c, "SINGLE")
\* A PAID webhook may arrive at any time and any number of times.
StartHook(s, c) ==
  /\ payment[c] # "NONE"
  /\ Start(s, "hook", IF c \in Reservations /\ res[c].type = "SINGLE" THEN "body" ELSE "look",
           c, "SINGLE")
StartSlot(s, cell) == Start(s, "slot", "look", cell, "SINGLE")
\* cancelEvent reads the event, and returns at once if it is cancelled.
StartCancelEvent(s, r) ==
  /\ event[r] = "LIVE"
  /\ Cardinality({t \in Sessions : sess[t].op = "cancelEvent"}) < MaxCancels
  /\ Start(s, "cancelEvent", "body", r, "SINGLE")

-----------------------------------------------------------------------------
(* The agenda. *)

\* The statuses that block a cell: any, for a generated slot (CANCELLED and
\* EXPIRED are never written); AVAILABLE only, for a new one.
AnyStatus == SlotStatus \ {"NONE"}
Blocked(cell, statuses) ==
  \E x \in Slots : slot[x].status \in statuses /\ <<slot[x].lane, slot[x].week>> = cell

OccurrencesOf(r) == {x \in Slots : occ[x].status # "NONE" /\ occ[x].of = r}

\* The week of the last occurrence, or the reservation's own.
Last(r) == CHOOSE x \in OccurrencesOf(r) : \A y \in OccurrencesOf(r) :
             slot[y].week <= slot[x].week
Base(r) == IF OccurrencesOf(r) = {} THEN res[r].slot ELSE Last(r)
NextWeek(r) == slot[Base(r)].week + 1
NextCell(r) == <<slot[Base(r)].lane, NextWeek(r)>>

\* The reservation a request's recurrence hangs on.
Root(s) == IF sess[s].target \in Slots THEN occ[sess[s].target].of ELSE sess[s].target

\* The overlap query of a new slot or of a webhook: what it finds is used when
\* the transaction ends.
Look(s) ==
  /\ sess[s].phase = "look"
  /\ Become(s, [sess[s] EXCEPT
       !.phase = "body",
       !.free = IF sess[s].op = "slot" THEN ~Blocked(sess[s].target, {"AVAILABLE"})
                ELSE ~Blocked(NextCell(Root(s)), AnyStatus)])
  /\ UNCHANGED <<now, policy, tables>>

CreateSlot(s, y) ==
  /\ At(s, "slot", "body") /\ sess[s].free
  /\ slot[y].status = "NONE"
  /\ slot' = [slot EXCEPT ![y] = [status |-> "AVAILABLE", lane |-> sess[s].target[1],
                                  week |-> sess[s].target[2]]]
  /\ Finish(s)
  /\ UNCHANGED <<now, policy, res, occ, payment, event>>

\* Bound: or no row is left for the slot.
CreateSlotRefused(s) ==
  /\ At(s, "slot", "body")
  /\ ~sess[s].free \/ \A y \in Slots : slot[y].status # "NONE"
  /\ Abandon(s)

\* generateNextWeeklyOccurrence for reservation r in the week after slot b's,
\* which the overlap query found free or not: the slot and occurrence tables S
\* and O become slot' and occ'.
Generates(free, O, r, week) ==
  /\ week <= LastWeek /\ free
  /\ ~ \E x \in Slots : O[x].status = "PENDING_PAYMENT" /\ O[x].of = r

Generated(free, S, O, r, b) ==
  IF Generates(free, O, r, slot[b].week + 1)
  THEN \E y \in Slots :
         /\ S[y].status = "NONE"
         /\ slot' = [S EXCEPT ![y] = [status |-> "HOLD", lane |-> slot[b].lane,
                                      week |-> slot[b].week + 1]]
         /\ occ' = [O EXCEPT ![y] = [status |-> "PENDING_PAYMENT", of |-> r]]
  ELSE slot' = S /\ occ' = O

-----------------------------------------------------------------------------
(* createReservation *)

\* The unique index on CONFIRMED reservations of a slot.
ConfirmedElsewhere(r, x) ==
  \E q \in Reservations \ {r} : res[q].status = "CONFIRMED" /\ res[q].slot = x

\* Mutated form: a slot on hold may be reserved.
MayReserve_Held(s) ==
  LET x == sess[s].target IN
  /\ slot[x].status \in {"AVAILABLE", "HOLD"}
  /\ sess[s].type = "RECURRING" => policy.recurring
  /\ StartOf(slot[x].week) - now >= policy.advance
  /\ ~policy.charges => ~ConfirmedElsewhere(NoTarget, x)
MayReserve(s) ==
  LET x == sess[s].target IN
  /\ slot[x].status = "AVAILABLE"
  /\ sess[s].type = "RECURRING" => policy.recurring
  /\ StartOf(slot[x].week) - now >= policy.advance
  /\ ~policy.charges => ~ConfirmedElsewhere(NoTarget, x)

\* Confirmed at once when no payment is required.  FOR UPDATE locks the rows of
\* the slot, of its space and of the policy: the policy stays as it is read, and
\* no slot is inserted between the overlap query and the end.
Reserve(s, r) ==
  LET x == sess[s].target
      Row(st) == [status |-> st, slot |-> x, type |-> sess[s].type, expires |-> now + TTL,
                  charged |-> policy.charges]
      Taken(st) == WithStatus(slot, x, st)
      free == ~Blocked(<<slot[x].lane, slot[x].week + 1>>, AnyStatus)
  IN
  /\ At(s, "reserve", "body") /\ MayReserve(s)
  /\ res[r].status = "NONE"
  /\ \/ /\ policy.charges
        /\ res' = [res EXCEPT ![r] = Row("PENDING")]
        /\ slot' = Taken("HOLD") /\ occ' = occ
     \/ /\ ~policy.charges
        /\ res' = [res EXCEPT ![r] = Row("CONFIRMED")]
        /\ IF sess[s].type = "RECURRING" THEN Generated(free, Taken("RESERVED"), occ, r, x)
           ELSE slot' = Taken("RESERVED") /\ occ' = occ
  /\ Finish(s)
  /\ UNCHANGED <<now, policy, payment, event>>

ReserveRefused(s) == At(s, "reserve", "body") /\ ~MayReserve(s) /\ Abandon(s)

-----------------------------------------------------------------------------
(* cancelReservation, with its maintenance in the same transaction *)

\* Mutated form: the slot is not given back.
Cancel_KeepsSlot(s) ==
  LET r == sess[s].target  t == sess[s].began IN
  /\ At(s, "cancel", "body")
  /\ ResAt(t)[r].status # "CONSUMED"
  /\ res' = WithStatus(ResAt(t), r, "CANCELLED")
  /\ slot' = SlotAt(t)
  /\ occ' = OccAt(t)
  /\ Finish(s)
  /\ UNCHANGED <<now, policy, payment, event>>
\* Already CANCELLED (perhaps by its own maintenance) is answered as done.
Cancel(s) ==
  LET r == sess[s].target  t == sess[s].began IN
  /\ At(s, "cancel", "body")
  /\ ResAt(t)[r].status # "CONSUMED"
  /\ res' = WithStatus(ResAt(t), r, "CANCELLED")
  /\ slot' = IF ResAt(t)[r].status # "CANCELLED"
                /\ SlotAt(t)[res[r].slot].status \in {"RESERVED", "HOLD"}
             THEN WithStatus(SlotAt(t), res[r].slot, "AVAILABLE") ELSE SlotAt(t)
  /\ occ' = OccAt(t)
  /\ Finish(s)
  /\ UNCHANGED <<now, policy, payment, event>>

CancelRefused(s) ==
  /\ At(s, "cancel", "body")
  /\ ResAt(sess[s].began)[sess[s].target].status = "CONSUMED"
  /\ Abandon(s)

-----------------------------------------------------------------------------
(* Payments of reservations and occurrences. *)

\* Still open once the transaction's maintenance is done.
Open(c, t) ==
  IF c \in Reservations THEN ResAt(t)[c].status = "PENDING"
  ELSE OccAt(t)[c].status = "PENDING_PAYMENT"

\* Past its deadline on the wall clock, which the code reads at some moment
\* between the beginning of the transaction and its end.
Late(c) == IF c \in Reservations THEN res[c].expires <= now ELSE Due(c) <= now

\* The amount is that of the reservation when it was made, or that of today's
\* policy for an occurrence.
MayPay(s) ==
  LET c == sess[s].target IN
  /\ Open(c, sess[s].began) /\ payment[c] = "NONE"
  /\ IF c \in Reservations THEN res[c].charged ELSE policy.charges

\* createPendingPaymentForReservation, createPendingPaymentForOccurrence
Pay(s) ==
  LET c == sess[s].target IN
  /\ At(s, "pay", "body") /\ MayPay(s)
  /\ payment' = [payment EXCEPT ![c] = "PENDING"]
  /\ Maintained(sess[s].began)
  /\ Finish(s)
  /\ UNCHANGED <<now, policy, event>>

PayRefused(s) ==
  /\ At(s, "pay", "body")
  /\ ~MayPay(s) \/ Late(sess[s].target)
  /\ Abandon(s)

\* Mutated forms: what expired or was cancelled is confirmed; what is confirmed
\* is confirmed again.
MayConfirm_Reopened(s) ==
  LET c == sess[s].target IN
  /\ payment[c] = "PENDING"
  /\ c \in Reservations => ~ConfirmedElsewhere(c, res[c].slot)
MayConfirm_Again(s) ==
  LET c == sess[s].target IN
  /\ payment[c] \in {"PENDING", "PAID"}
  /\ c \in Reservations => ~ConfirmedElsewhere(c, res[c].slot)
MayConfirm(s) ==
  LET c == sess[s].target IN
  /\ payment[c] = "PENDING" /\ Open(c, sess[s].began)
  /\ c \in Reservations => ~ConfirmedElsewhere(c, res[c].slot)

\* processReservationPaymentWebhook and confirmReservationInTransaction
HookReservation(s) ==
  LET r == sess[s].target  t == sess[s].began
      S == WithStatus(SlotAt(t), res[r].slot, "RESERVED")
  IN
  /\ At(s, "hook", "body") /\ r \in Reservations /\ MayConfirm(s)
  /\ payment' = [payment EXCEPT ![r] = "PAID"]
  /\ res' = WithStatus(ResAt(t), r, "CONFIRMED")
  /\ IF res[r].type = "RECURRING" THEN Generated(sess[s].free, S, OccAt(t), r, Base(r))
     ELSE slot' = S /\ occ' = OccAt(t)
  /\ Finish(s)
  /\ UNCHANGED <<now, policy, event>>

\* ... and confirmOccurrenceInTransaction
HookOccurrence(s) ==
  LET x == sess[s].target  t == sess[s].began IN
  /\ At(s, "hook", "body") /\ x \in Slots /\ MayConfirm(s)
  /\ payment' = [payment EXCEPT ![x] = "PAID"]
  /\ res' = ResAt(t)
  /\ Generated(sess[s].free, WithStatus(SlotAt(t), x, "RESERVED"),
               WithStatus(OccAt(t), x, "CONFIRMED"), occ[x].of, Base(occ[x].of))
  /\ Finish(s)
  /\ UNCHANGED <<now, policy, event>>

\* A repeated webhook is answered as processed; its maintenance stays.
HookRepeated(s) ==
  /\ At(s, "hook", "body") /\ payment[sess[s].target] = "PAID"
  /\ Maintained(sess[s].began)
  /\ Finish(s)
  /\ UNCHANGED <<now, policy, payment, event>>

HookRefused(s) ==
  /\ At(s, "hook", "body") /\ payment[sess[s].target] # "PAID"
  /\ ~MayConfirm(s) \/ Late(sess[s].target)
  /\ Abandon(s)

\* Mutated form: a failure is recorded whatever the payment's status.
MarkNonPaid_Always(c, st) ==
  /\ payment[c] # "NONE"
  /\ payment' = [payment EXCEPT ![c] = st]
  /\ UNCHANGED <<now, policy, slot, res, occ, event, sess>>
\* markReservationPaymentNonPaid
MarkNonPaid(c, st) ==
  /\ payment[c] = "PENDING"
  /\ payment' = [payment EXCEPT ![c] = st]
  /\ UNCHANGED <<now, policy, slot, res, occ, event, sess>>

-----------------------------------------------------------------------------
(* The event of a reservation. *)

\* createArenaReservationEvent
CreateEvent(r) ==
  /\ res[r].status = "CONFIRMED" /\ slot[res[r].slot].status = "RESERVED"
  /\ event' = [event EXCEPT ![r] = "LIVE"]
  /\ res' = WithStatus(res, r, "CONSUMED")
  /\ UNCHANGED <<now, policy, slot, occ, payment, sess>>

\* Mutated form: the event is not cancelled.
CancelEvent_SlotOnly(s) ==
  LET r == sess[s].target IN
  /\ At(s, "cancelEvent", "body")
  /\ event' = event
  /\ slot' = WithStatus(slot, res[r].slot, "AVAILABLE")
  /\ res' = IF res[r].status = "CONSUMED"
            THEN WithStatus(res, r, "CANCELLED") ELSE res
  /\ Finish(s)
  /\ UNCHANGED <<now, policy, occ, payment>>
\* cancelEvent's transaction: nothing is read again.
CancelEvent(s) ==
  LET r == sess[s].target IN
  /\ At(s, "cancelEvent", "body")
  /\ event' = [event EXCEPT ![r] = "CANCELLED"]
  /\ slot' = WithStatus(slot, res[r].slot, "AVAILABLE")
  /\ res' = IF res[r].status = "CONSUMED"
            THEN WithStatus(res, r, "CANCELLED") ELSE res
  /\ Finish(s)
  /\ UNCHANGED <<now, policy, occ, payment>>

-----------------------------------------------------------------------------
\* updateArena: its owner gives the arena another policy.
UpdatePolicy(p) ==
  /\ p # policy
  /\ policy' = p
  /\ UNCHANGED <<now, tables, sess>>

Tick == now < MaxTime /\ now' = now + 1 /\ UNCHANGED <<policy, tables, sess>>

\* The process dies, the connection drops or a call in the transaction fails.
Crash(s) == sess[s].phase # "idle" /\ Abandon(s)

Arrive(s) ==
  \/ StartList(s)
  \/ \E x \in Slots, type \in Type : StartReserve(s, x, type)
  \/ \E r \in Reservations : StartCancel(s, r) \/ StartCancelEvent(s, r)
  \/ \E c \in Contexts : StartPay(s, c) \/ StartHook(s, c)
  \/ \E cell \in NewCells : StartSlot(s, cell)

Progress(s) ==
  \/ Maintain(s) \/ MaintainFails(s) \/ Look(s)
  \/ \E r \in Reservations : Reserve(s, r)
  \/ ReserveRefused(s)
  \/ Cancel(s) \/ CancelRefused(s)
  \/ Pay(s) \/ PayRefused(s)
  \/ HookReservation(s) \/ HookOccurrence(s) \/ HookRepeated(s) \/ HookRefused(s)
  \/ \E y \in Slots : CreateSlot(s, y)
  \/ CreateSlotRefused(s)
  \/ CancelEvent(s)

Next ==
  \/ \E s \in Sessions : Arrive(s) \/ Progress(s) \/ Crash(s)
  \/ \E c \in Contexts, st \in {"FAILED", "CANCELLED"} : MarkNonPaid(c, st)
  \/ \E r \in Reservations : CreateEvent(r)
  \/ \E p \in Policies : UpdatePolicy(p)
  \/ Tick

Spec == Init /\ [][Next]_vars

\* Time passes, requests go on, and among them are lists, whose maintenance
\* succeeds again and again: nothing else releases what is overdue.
Fairness ==
  /\ WF_vars(Tick)
  /\ \A s \in Sessions : WF_vars(Progress(s))
  /\ SF_vars(\E s \in Sessions : StartList(s))
  /\ SF_vars(\E s \in Sessions : Maintain(s))

FairSpec == Spec /\ Fairness

-----------------------------------------------------------------------------
(* What must hold. *)

Active == {"PENDING", "CONFIRMED", "CONSUMED"}
ReservedBy(x) == {r \in Reservations : res[r].status \in Active /\ res[r].slot = x}
OccurrenceOn(x) == occ[x].status \in {"PENDING_PAYMENT", "CONFIRMED"}

\* A slot is promised to one reservation or occurrence at a time, whatever
\* expires, is released, cancelled, paid late or turned into an event.
OneUsePerSlot ==
  \A x \in Slots :
    /\ \A r, q \in ReservedBy(x) : r = q
    /\ OccurrenceOn(x) => ReservedBy(x) = {}

\* A slot's status is the state of its use: HOLD while that waits for payment,
\* RESERVED once it is confirmed, AVAILABLE exactly when there is none, so that
\* no slot is lost and none is offered twice.
SlotShowsUse ==
  \A x \in Slots :
    /\ slot[x].status = "HOLD" <=>
         \/ \E r \in ReservedBy(x) : res[r].status = "PENDING"
         \/ occ[x].status = "PENDING_PAYMENT"
    /\ slot[x].status = "RESERVED" <=>
         \/ \E r \in ReservedBy(x) : res[r].status \in {"CONFIRMED", "CONSUMED"}
         \/ occ[x].status = "CONFIRMED"

\* A live event is on a CONSUMED reservation, and a CONSUMED reservation has a
\* live event: neither is cancelled without the other (cancelEvent,
\* cancelReservation, createArenaReservationEvent; an updateEvent that undoes a
\* cancellation is TicketSales's CancelledEventStays).
EventOnReservation ==
  \A r \in Reservations : event[r] = "LIVE" <=> res[r].status = "CONSUMED"

\* Money and agenda agree: what is confirmed was paid, unless the policy asked for
\* nothing when it was reserved, whatever it asked for before and after; and what
\* was paid is confirmed, or was cancelled by its owner after that.
PaidIsConfirmed ==
  /\ \A r \in Reservations :
       /\ payment[r] = "PAID" => res[r].status \in {"CONFIRMED", "CONSUMED", "CANCELLED"}
       /\ res[r].charged /\ res[r].status \in {"CONFIRMED", "CONSUMED"} => payment[r] = "PAID"
  /\ \A x \in Slots : payment[x] = "PAID" <=> occ[x].status = "CONFIRMED"

\* A recurring reservation has at most one open occurrence, all the earlier
\* ones are paid, and they follow each other week by week from its own slot,
\* with no gap and no repetition.
WeekByWeek ==
  \A r \in Reservations :
    /\ \A x, y \in OccurrencesOf(r) : slot[x].week = slot[y].week => x = y
    /\ \A x \in OccurrencesOf(r) :
         /\ slot[x].lane = slot[res[r].slot].lane /\ slot[x].week > slot[res[r].slot].week
         /\ slot[x].week > slot[res[r].slot].week + 1 =>
              \E y \in OccurrencesOf(r) :
                slot[y].week = slot[x].week - 1 /\ occ[y].status = "CONFIRMED"

\* Deadlines: what is confirmed was in time when its webhook began, and what is
\* released was past its time.
DeadlinesKept ==
  [][/\ \A r \in Reservations :
          (res[r].status = "PENDING" /\ res'[r].status = "CONFIRMED")
            => \E s \in Sessions : sess[s].target = r /\ sess[s].began < res[r].expires
     /\ \A x \in Slots :
          /\ (occ[x].status = "PENDING_PAYMENT" /\ occ'[x].status = "CONFIRMED")
               => \E s \in Sessions : sess[s].target = x /\ sess[s].began < Due(x)
          /\ (occ[x].status = "PENDING_PAYMENT" /\ occ'[x].status = "RELEASED")
               => Due(x) <= now]_vars

\* What has ended stays ended: a late webhook confirms nothing that expired,
\* was released or cancelled.
EndedIsFinal ==
  [][/\ \A r \in Reservations :
          /\ res[r].status = "CANCELLED" => res'[r] = res[r]
          /\ res[r].status = "CONSUMED" => res'[r].status \in {"CONSUMED", "CANCELLED"}
     /\ \A x \in Slots : occ[x].status \in {"RELEASED", "CONFIRMED"} => occ'[x] = occ[x]]_vars

\* No slot is kept on hold for ever: what is not paid is released.
HoldsEnd == \A x \in Slots : slot[x].status = "HOLD" ~> slot[x].status # "HOLD"

Occupancy == INSTANCE SlotOccupancy WITH
  Uses <- Contexts,
  using <- {p \in Slots \X Contexts :
              IF p[2] \in Reservations THEN p[2] \in ReservedBy(p[1])
              ELSE p[1] = p[2] /\ OccurrenceOn(p[1])},
  ended <- {r \in Reservations : res[r].status = "CANCELLED"} \cup
           {x \in Slots : occ[x].status = "RELEASED"}

\* Every step begins and ends uses of slots the way the agenda allows.
SlotsOccupied == Occupancy!Spec

-----------------------------------------------------------------------------
(* What the documents say and the code does not do. *)

\* "A slot cannot have more than one active reservation at a time"
\* (sprint-05.md).
OneActiveReservation ==
  \A x \in Slots : \A r, q \in ReservedBy(x) : r = q

=============================================================================
