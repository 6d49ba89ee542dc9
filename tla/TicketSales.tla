---------------------------- MODULE TicketSales ----------------------------
(***************************************************************************)
(* One event selling (or giving away) its spots: bookings with a time      *)
(* limit, the payments of those bookings, the provider's webhooks and the  *)
(* event's participants.                                                   *)
(*                                                                         *)
(* A session is a request handler running one operation.  It holds the     *)
(* Postgres row locks its transaction has taken until it commits, rolls    *)
(* back or dies; a statement that needs a row locked by another session    *)
(* waits.  Postgres runs READ COMMITTED: a statement sees what is          *)
(* committed, and now() is the time the transaction began.  A registration *)
(* keeps the event row locked FOR UPDATE while it inserts its participant, *)
(* and that insert and a webhook's can wait for each other: they are the   *)
(* phase "enter".  A booking decides in one step once it has the event.    *)
(***************************************************************************)
EXTENDS Naturals, FiniteSets

CONSTANTS
  Users,        \* people who may hold or own a spot
  Bookings,     \* ids of booking rows; a bound, each id is inserted once
  Sessions,     \* requests served concurrently
  NoUser, NoBooking, NoEdit,
  TTL,          \* BOOKING_TTL_SECONDS, in clock ticks
  MaxTime,      \* bound on the clock
  FirstEvent,   \* the event row at the start
  Edits,        \* event rows an organizer's edit may produce
  Requests,     \* the operations requested, a bound on the environment
  RedisMayFail  \* whether a Redis command may fail

Op == {"none", "book", "join", "list", "cancel", "pay", "hook"}

EventRow == [status : {"DRAFT", "PUBLISHED", "CANCELLED"},
             type : {"FREE", "PAID"}, capacity : Nat \ {0}]

ASSUME SetsAssumption ==
  /\ IsFiniteSet(Users) /\ IsFiniteSet(Bookings)
  /\ NoUser \notin Users /\ NoBooking \notin Bookings /\ NoEdit \notin Edits
ASSUME TimeAssumption == TTL \in Nat \ {0} /\ MaxTime \in Nat
ASSUME EventAssumption ==
  /\ FirstEvent \in EventRow
  /\ Edits \subseteq {e \in EventRow : e.status # "CANCELLED"}
ASSUME RequestsAssumption == Requests \subseteq (Op \ {"none"}) \cup {"cancelEvent", "nonPaid"}
ASSUME RedisAssumption == RedisMayFail \in BOOLEAN

VARIABLES
  now,          \* the clock of the database and of the server
  event,        \* the event row
  edit,         \* the merged row an edit has computed and not yet written
  booking,      \* the bookings table
  participants, \* users with a CONFIRMED row in event_participants
  payment,      \* status of the one payment row a booking can have
  notices,      \* notifications written about each booking
  keys,         \* bookings whose Redis key exists
  sess          \* what each session is doing

vars == <<now, event, edit, booking, participants, payment, notices, keys, sess>>

BookingStatus == {"NONE", "RESERVED", "EXPIRED", "CANCELLED", "COMPLETED"}
PaymentStatus == {"NONE", "PENDING", "PAID", "FAILED", "CANCELLED"}
Phase == {"idle", "lock", "booking", "expire", "charge", "enter", "body", "redis"}

BookingRow == [status : BookingStatus, user : Users \cup {NoUser}, expires : Nat]
Counts == [confirmed : Nat, cancelled : Nat]
Session == [op : Op, phase : Phase, user : Users \cup {NoUser},
            booking : Bookings \cup {NoBooking}, began : Nat,
            stale : SUBSET Bookings]

TypeOK ==
  /\ now \in Nat
  /\ event \in EventRow
  /\ edit \in Edits \cup {NoEdit}
  /\ booking \in [Bookings -> BookingRow]
  /\ participants \in SUBSET Users
  /\ payment \in [Bookings -> PaymentStatus]
  /\ notices \in [Bookings -> Counts]
  /\ keys \in SUBSET Bookings
  /\ sess \in [Sessions -> Session]

IdleSession == [op |-> "none", phase |-> "idle", user |-> NoUser,
                booking |-> NoBooking, began |-> 0, stale |-> {}]

Init ==
  /\ now = 0
  /\ event = FirstEvent
  /\ edit = NoEdit
  /\ booking = [b \in Bookings |-> [status |-> "NONE", user |-> NoUser, expires |-> 0]]
  /\ participants = {}
  /\ payment = [b \in Bookings |-> "NONE"]
  /\ notices = [b \in Bookings |-> [confirmed |-> 0, cancelled |-> 0]]
  /\ keys = {}
  /\ sess = [s \in Sessions |-> IdleSession]

-----------------------------------------------------------------------------
(* Rows, locks and counts. *)

WithStatus(st) == {b \in Bookings : booking[b].status = st}

At(s, op, phase) == sess[s].op = op /\ sess[s].phase = phase

\* Mutated form: a webhook locks its booking before the payment.
RowLocks_BookingFirst(s) ==
  sess[s].stale \cup
  IF \/ sess[s].op \in {"pay", "hook"} /\ sess[s].phase \in {"expire", "charge", "enter"}
     \/ sess[s].op = "hook" /\ sess[s].phase = "lock"
  THEN {sess[s].booking} ELSE {}
\* Booking rows a session has locked: those it has marked EXPIRED and not
\* committed, and the row a payment or a webhook selected FOR UPDATE.
RowLocks(s) ==
  sess[s].stale \cup
  IF sess[s].op \in {"pay", "hook"} /\ sess[s].phase \in {"expire", "charge", "enter"}
  THEN {sess[s].booking} ELSE {}

\* Mutated form: no FOR UPDATE.
RowFree_Unlocked(s, b) == TRUE
RowFree(s, b) == \A t \in Sessions \ {s} : b \notin RowLocks(t)

PaymentFree(b) ==
  \A t \in Sessions : ~ /\ sess[t].op = "hook" /\ sess[t].booking = b
                        /\ sess[t].phase \in {"booking", "expire", "enter"}

\* The event's row, which a registration holds FOR UPDATE while it inserts.
EventFree == \A t \in Sessions : ~At(t, "join", "enter")

\* The entry of UNIQUE (event_id, user_id) for user u: a webhook has put it there and
\* not committed while it waits for the event its participant refers to.
HasEntry(t, u) == At(t, "hook", "enter") /\ booking[sess[t].booking].user = u
EntryFree(s, u) == \A t \in Sessions \ {s} : ~HasEntry(t, u)

\* Mutated forms: the row at its limit is not stale; a row is stale too early.
Targets_Strict(s) ==
  {b \in Bookings : booking[b].status = "RESERVED" /\ booking[b].expires < sess[s].began}
Targets_Early(s) ==
  {b \in Bookings : booking[b].status = "RESERVED" /\ booking[b].expires <= sess[s].began + 1}
\* The rows expireStaleBookings updates: the event's, or one user's.
Targets(s) ==
  {b \in Bookings : /\ booking[b].status = "RESERVED"
                    /\ booking[b].expires <= sess[s].began
                    /\ sess[s].op = "list" => sess[s].user \in {NoUser, booking[b].user}}

Swept(s) == sess[s].phase = "expire" /\ Targets(s) \subseteq sess[s].stale

\* The bookings table as session s sees it after its expiry, and as it
\* becomes when s commits.
AfterExpiry(s) ==
  [b \in Bookings |-> IF b \in sess[s].stale
                      THEN [booking[b] EXCEPT !.status = "EXPIRED"] ELSE booking[b]]

Held(s) == {b \in Bookings : AfterExpiry(s)[b].status = "RESERVED"}

Used == Cardinality(participants) + Cardinality(WithStatus("RESERVED"))
UsedAfterExpiry(s) == Cardinality(participants) + Cardinality(Held(s))

\* redis.del on a set of bookings; a failure is swallowed.
DelKeys(B) ==
  \/ keys' = keys \ B
  \/ RedisMayFail /\ keys' = keys

Become(s, r) == sess' = [sess EXCEPT ![s] = r]
Finish(s) == Become(s, IdleSession)
\* What a session still needs once its expiry is over.
After(s, phase, b) ==
  [IdleSession EXCEPT !.op = sess[s].op, !.phase = phase, !.booking = b]
\* A transaction that ends having changed nothing: refused, rolled back, or
\* lost with its connection.
Abandon(s) ==
  /\ Finish(s)
  /\ UNCHANGED <<now, event, edit, booking, participants, payment, notices, keys>>

\* A transaction that gives up after its expiry: the keys are gone, the
\* statuses are not.
GiveUp(s) ==
  /\ DelKeys(sess[s].stale)
  /\ Finish(s)
  /\ UNCHANGED <<now, event, edit, booking, participants, payment, notices>>

-----------------------------------------------------------------------------
(* Requests arrive. *)

Start(s, op, phase, u, b) ==
  /\ sess[s].phase = "idle" /\ op \in Requests
  /\ Become(s, [IdleSession EXCEPT !.op = op, !.phase = phase, !.user = u,
                                   !.booking = b, !.began = now])
  /\ UNCHANGED <<now, event, edit, booking, participants, payment, notices, keys>>

\* Bound: a booking is only asked for while a row is left for it.
RowsLeft ==
  Cardinality(WithStatus("NONE")) >
  Cardinality({t \in Sessions : sess[t].op = "book" /\ sess[t].phase = "expire"})

StartBook(s, u) == RowsLeft /\ Start(s, "book", "expire", u, NoBooking)
StartJoin(s, u) == Start(s, "join", "expire", u, NoBooking)
StartList(s, u) == Start(s, "list", "expire", u, NoBooking)
StartCancel(s, b) ==
  booking[b].status # "NONE" /\ Start(s, "cancel", "expire", NoUser, b)
StartPay(s, b) == booking[b].status # "NONE" /\ Start(s, "pay", "lock", NoUser, b)
\* A PAID webhook may arrive at any time and any number of times.
StartHook(s, b) == payment[b] # "NONE" /\ Start(s, "hook", "lock", NoUser, b)

-----------------------------------------------------------------------------
(* expireStaleBookings, one row at a time, each waiting for its lock. *)

ExpireRow(s, b) ==
  /\ sess[s].phase = "expire"
  /\ b \in Targets(s) \ sess[s].stale
  /\ RowFree(s, b)
  /\ Become(s, [sess[s] EXCEPT !.stale = @ \cup {b}])
  /\ UNCHANGED <<now, event, edit, booking, participants, payment, notices, keys>>

\* Run through the pool the statement commits by itself: a list request ends
\* there, a cancellation goes on to its own transaction.
CommitExpiry(s) ==
  /\ sess[s].op \in {"list", "cancel"} /\ Swept(s)
  /\ booking' = AfterExpiry(s)
  /\ DelKeys(sess[s].stale)
  /\ IF sess[s].op = "list" THEN Finish(s)
     ELSE Become(s, After(s, "body", sess[s].booking))
  /\ UNCHANGED <<now, event, edit, participants, payment, notices>>

-----------------------------------------------------------------------------
(* createPaidBooking *)

\* Mutated form: an active booking of the same person is not looked for.
MayOtherwiseBook_Twice(s) ==
  event.status = "PUBLISHED" /\ event.type = "PAID" /\ sess[s].user \notin participants
MayOtherwiseBook(s) ==
  /\ event.status = "PUBLISHED" /\ event.type = "PAID"
  /\ sess[s].user \notin participants
  /\ \A b \in Held(s) : booking[b].user # sess[s].user

MayBook(s) == MayOtherwiseBook(s) /\ UsedAfterExpiry(s) < event.capacity

Book(s, b) ==
  /\ sess[s].op = "book" /\ Swept(s) /\ EventFree /\ MayBook(s)
  /\ booking[b].status = "NONE"
  /\ booking' = [AfterExpiry(s) EXCEPT
                   ![b] = [status |-> "RESERVED", user |-> sess[s].user,
                           expires |-> sess[s].began + TTL]]
  /\ DelKeys(sess[s].stale)
  /\ Become(s, After(s, "redis", b))
  /\ UNCHANGED <<now, event, edit, participants, payment, notices>>

BookRefused(s) ==
  sess[s].op = "book" /\ Swept(s) /\ EventFree /\ ~MayBook(s) /\ GiveUp(s)

SetKey(s) ==
  /\ At(s, "book", "redis")
  /\ keys' = keys \cup {sess[s].booking}
  /\ Finish(s)
  /\ UNCHANGED <<now, event, edit, booking, participants, payment, notices>>

\* SETEX failed: the booking is cancelled by a statement of its own, if it is
\* still RESERVED once its row is free.
SetKeyFails(s) ==
  LET b == sess[s].booking IN
  /\ RedisMayFail
  /\ At(s, "book", "redis") /\ RowFree(s, b)
  /\ booking' = IF booking[b].status = "RESERVED"
                THEN [booking EXCEPT ![b].status = "CANCELLED"] ELSE booking
  /\ DelKeys({b})
  /\ Finish(s)
  /\ UNCHANGED <<now, event, edit, participants, payment, notices>>

-----------------------------------------------------------------------------
(* joinFreeEvent *)

\* The keys of what it expired are gone and its INSERT is next.
Enter(s) ==
  /\ DelKeys(sess[s].stale)
  /\ Become(s, [sess[s] EXCEPT !.phase = "enter"])
  /\ UNCHANGED <<now, event, edit, booking, participants, payment, notices>>

\* Mutated form: bookings do not count as used spots.
MayJoin_Uncounted(s) ==
  /\ event.status = "PUBLISHED" /\ event.type = "FREE"
  /\ Cardinality(participants) < event.capacity
MayJoin(s) ==
  /\ event.status = "PUBLISHED" /\ event.type = "FREE"
  /\ UsedAfterExpiry(s) < event.capacity

JoinLock(s) == sess[s].op = "join" /\ Swept(s) /\ EventFree /\ MayJoin(s) /\ Enter(s)

JoinRefused(s) ==
  sess[s].op = "join" /\ Swept(s) /\ EventFree /\ ~MayJoin(s) /\ GiveUp(s)

Join(s) ==
  /\ At(s, "join", "enter") /\ EntryFree(s, sess[s].user)
  /\ sess[s].user \notin participants
  /\ booking' = AfterExpiry(s)
  /\ participants' = participants \cup {sess[s].user}
  /\ Finish(s)
  /\ UNCHANGED <<now, event, edit, payment, notices, keys>>

\* The unique index refuses the row.
JoinRepeated(s) ==
  /\ At(s, "join", "enter") /\ EntryFree(s, sess[s].user)
  /\ sess[s].user \in participants
  /\ Abandon(s)

-----------------------------------------------------------------------------
(* cancelBooking, after its expiry has committed *)

\* Mutated forms: the status is not read again under the lock; a misspelt one
\* is written.
Cancel_Unguarded(s) ==
  LET b == sess[s].booking IN
  /\ At(s, "cancel", "body") /\ RowFree(s, b)
  /\ booking' = [booking EXCEPT ![b].status = "CANCELLED"]
  /\ notices' = [notices EXCEPT ![b].cancelled = @ + 1]
  /\ Become(s, [sess[s] EXCEPT !.phase = "redis"])
  /\ UNCHANGED <<now, event, edit, participants, payment, keys>>
Cancel_Misspelt(s) ==
  LET b == sess[s].booking IN
  /\ At(s, "cancel", "body") /\ RowFree(s, b)
  /\ booking[b].status = "RESERVED"
  /\ booking' = [booking EXCEPT ![b].status = "CANCELED"]
  /\ notices' = [notices EXCEPT ![b].cancelled = @ + 1]
  /\ Become(s, [sess[s] EXCEPT !.phase = "redis"])
  /\ UNCHANGED <<now, event, edit, participants, payment, keys>>
Cancel(s) ==
  LET b == sess[s].booking IN
  /\ At(s, "cancel", "body") /\ RowFree(s, b)
  /\ booking[b].status = "RESERVED"
  /\ booking' = [booking EXCEPT ![b].status = "CANCELLED"]
  /\ notices' = [notices EXCEPT ![b].cancelled = @ + 1]
  /\ Become(s, [sess[s] EXCEPT !.phase = "redis"])
  /\ UNCHANGED <<now, event, edit, participants, payment, keys>>

CancelRefused(s) ==
  /\ At(s, "cancel", "body") /\ RowFree(s, sess[s].booking)
  /\ booking[sess[s].booking].status # "RESERVED"
  /\ Abandon(s)

\* The key of a booking just cancelled or completed is deleted after COMMIT.
DelKey(s) ==
  /\ sess[s].op \in {"cancel", "hook"} /\ sess[s].phase = "redis"
  /\ DelKeys({sess[s].booking})
  /\ Finish(s)
  /\ UNCHANGED <<now, event, edit, booking, participants, payment, notices>>

-----------------------------------------------------------------------------
(* createPendingPaymentForBooking: the provider is called with the booking
   row locked. *)

Goto(s, phase) ==
  /\ Become(s, [sess[s] EXCEPT !.phase = phase])
  /\ UNCHANGED <<now, event, edit, booking, participants, payment, notices, keys>>

PayLock(s) == At(s, "pay", "lock") /\ RowFree(s, sess[s].booking) /\ Goto(s, "expire")

\* Mutated form: the booking's status is not read again.
Live_AnyStatus(s) == booking[sess[s].booking].expires > now
\* Still RESERVED after the expiry, and not past its time on the wall clock.
Live(s) ==
  LET b == sess[s].booking IN
  AfterExpiry(s)[b].status = "RESERVED" /\ booking[b].expires > now

PayCharge(s) ==
  /\ sess[s].op = "pay" /\ Swept(s) /\ Live(s) /\ event.type = "PAID"
  /\ DelKeys(sess[s].stale)
  /\ Become(s, [After(s, "charge", sess[s].booking) EXCEPT !.stale = sess[s].stale])
  /\ UNCHANGED <<now, event, edit, booking, participants, payment, notices>>

PayRefused(s) ==
  sess[s].op = "pay" /\ Swept(s) /\ ~(Live(s) /\ event.type = "PAID") /\ GiveUp(s)

\* The charge exists at the provider: record it, unless the booking already
\* has a payment, whatever its status.
PayRecord(s) ==
  LET b == sess[s].booking IN
  /\ At(s, "pay", "charge") /\ payment[b] = "NONE"
  /\ payment' = [payment EXCEPT ![b] = "PENDING"]
  /\ booking' = AfterExpiry(s)
  /\ Finish(s)
  /\ UNCHANGED <<now, event, edit, participants, notices, keys>>

PayConflict(s) ==
  At(s, "pay", "charge") /\ payment[sess[s].booking] # "NONE" /\ Abandon(s)

-----------------------------------------------------------------------------
(* processPaymentWebhook.  A PAID event locks the payment, then the booking,
   then expires stale bookings, and sells the spot if its own booking lives. *)

HookLock(s) ==
  /\ At(s, "hook", "lock") /\ PaymentFree(sess[s].booking)
  /\ payment[sess[s].booking] = "PENDING"
  /\ Goto(s, "booking")

\* Mutated form: a repeated PAID is not answered.
HookSettled_FailedOnly(s) ==
  /\ At(s, "hook", "lock") /\ PaymentFree(sess[s].booking)
  /\ payment[sess[s].booking] \in {"FAILED", "CANCELLED"}
  /\ Abandon(s)
\* Already PAID: answered as processed.  FAILED or CANCELLED: a conflict.
HookSettled(s) ==
  /\ At(s, "hook", "lock") /\ PaymentFree(sess[s].booking)
  /\ payment[sess[s].booking] # "PENDING"
  /\ Abandon(s)

HookBooking(s) ==
  At(s, "hook", "booking") /\ RowFree(s, sess[s].booking) /\ Goto(s, "expire")

MaySell(s) == Live(s) /\ booking[sess[s].booking].user \notin participants

\* The participant's index entry is in; its foreign key needs the event row.
HookEnter(s) ==
  /\ sess[s].op = "hook" /\ Swept(s) /\ MaySell(s)
  /\ EntryFree(s, booking[sess[s].booking].user)
  /\ Enter(s)

HookSell(s) ==
  LET b == sess[s].booking IN
  /\ At(s, "hook", "enter") /\ EventFree
  /\ payment' = [payment EXCEPT ![b] = "PAID"]
  /\ booking' = [AfterExpiry(s) EXCEPT ![b].status = "COMPLETED"]
  /\ participants' = participants \cup {booking[b].user}
  /\ notices' = [notices EXCEPT ![b].confirmed = @ + 1]
  /\ Become(s, After(s, "redis", b))
  /\ UNCHANGED <<now, event, edit, keys>>

HookRefused(s) == sess[s].op = "hook" /\ Swept(s) /\ ~MaySell(s) /\ GiveUp(s)

\* Mutated form: a failure is recorded whatever the payment's status.
MarkNonPaid_Always(b, st) ==
  /\ "nonPaid" \in Requests
  /\ payment[b] # "NONE" /\ PaymentFree(b)
  /\ payment' = [payment EXCEPT ![b] = st]
  /\ UNCHANGED <<now, event, edit, booking, participants, notices, keys, sess>>
\* markBookingPaymentNonPaid, one transaction on the payment row.
MarkNonPaid(b, st) ==
  /\ "nonPaid" \in Requests
  /\ payment[b] = "PENDING" /\ PaymentFree(b)
  /\ payment' = [payment EXCEPT ![b] = st]
  /\ UNCHANGED <<now, event, edit, booking, participants, notices, keys, sess>>

-----------------------------------------------------------------------------
(* updateEvent reads the row, merges the request into it and later writes
   every column; cancelEvent writes the status. *)

EditEvent(e) ==
  /\ edit = NoEdit /\ event.status # "CANCELLED" /\ e # event
  /\ edit' = e
  /\ UNCHANGED <<now, event, booking, participants, payment, notices, keys, sess>>

WriteEdit ==
  /\ edit # NoEdit /\ EventFree
  /\ event' = edit /\ edit' = NoEdit
  /\ UNCHANGED <<now, booking, participants, payment, notices, keys, sess>>

CancelEvent ==
  /\ "cancelEvent" \in Requests
  /\ event.status # "CANCELLED" /\ EventFree
  /\ event' = [event EXCEPT !.status = "CANCELLED"]
  /\ UNCHANGED <<now, edit, booking, participants, payment, notices, keys, sess>>

-----------------------------------------------------------------------------
(* The environment: time, lost connections, and Postgres's deadlock detector,
   which aborts one of a set of transactions waiting for each other. *)

\* The key's TTL starts after the booking's, so it outlives it.
KeyExpires(b) ==
  /\ b \in keys /\ booking[b].expires <= now
  /\ keys' = keys \ {b}
  /\ UNCHANGED <<now, event, edit, booking, participants, payment, notices, sess>>

Tick ==
  /\ now < MaxTime
  /\ now' = now + 1
  /\ UNCHANGED <<event, edit, booking, participants, payment, notices, keys, sess>>

\* The process dies, the connection drops or the provider's call fails.
Crash(s) == sess[s].phase # "idle" /\ Abandon(s)

Deadlocked(D) ==
  \A s \in D :
    /\ sess[s].phase = "expire" /\ ~Swept(s)
    /\ \A b \in Targets(s) \ sess[s].stale : \E t \in D \ {s} : b \in RowLocks(t)

\* A registration that has the event and a webhook that has its index entry.
Crossed(s, t) == At(s, "join", "enter") /\ HasEntry(t, sess[s].user)

BreakDeadlock(s) ==
  /\ \/ \E D \in SUBSET Sessions : s \in D /\ Deadlocked(D)
     \/ \E t \in Sessions : Crossed(s, t) \/ Crossed(t, s)
  /\ Abandon(s)

Arrive(s) ==
  \/ \E u \in Users : StartBook(s, u) \/ StartJoin(s, u)
  \/ \E u \in Users \cup {NoUser} : StartList(s, u)
  \/ \E b \in Bookings : StartCancel(s, b) \/ StartPay(s, b) \/ StartHook(s, b)

Progress(s) ==
  \/ \E b \in Bookings : ExpireRow(s, b) \/ Book(s, b)
  \/ CommitExpiry(s) \/ BookRefused(s) \/ SetKey(s) \/ SetKeyFails(s)
  \/ JoinLock(s) \/ JoinRefused(s) \/ Join(s) \/ JoinRepeated(s)
  \/ Cancel(s) \/ CancelRefused(s) \/ DelKey(s)
  \/ PayLock(s) \/ PayCharge(s) \/ PayRefused(s) \/ PayRecord(s) \/ PayConflict(s)
  \/ HookLock(s) \/ HookSettled(s) \/ HookBooking(s) \/ HookRefused(s)
  \/ HookEnter(s) \/ HookSell(s)
  \/ BreakDeadlock(s)

Organizer == (\E e \in Edits : EditEvent(e)) \/ WriteEdit \/ CancelEvent

Next ==
  \/ \E s \in Sessions : Arrive(s) \/ Progress(s) \/ Crash(s)
  \/ \E b \in Bookings, st \in {"FAILED", "CANCELLED"} : MarkNonPaid(b, st)
  \/ Organizer
  \/ \E b \in Bookings : KeyExpires(b)
  \/ Tick

Spec == Init /\ [][Next]_vars

\* A handler never stops for ever while it can go on, and Postgres grants a
\* row lock in the order of the requests.
Fairness == \A s \in Sessions : SF_vars(Progress(s))

FairSpec == Spec /\ Fairness

-----------------------------------------------------------------------------
(* What must hold. *)

\* A row is locked by one transaction at a time, and a row a transaction has
\* marked EXPIRED stays RESERVED for everybody else until it commits: the
\* mutual exclusion every other property below rests on.
LocksExclusive ==
  /\ \A s, t \in Sessions : s # t => RowLocks(s) \cap RowLocks(t) = {}
  /\ \A s \in Sessions : \A b \in sess[s].stale : booking[b].status = "RESERVED"

\* A payment is PAID exactly when its booking is COMPLETED, the owner of a
\* COMPLETED booking is a participant, and nobody buys the same event twice
\* (processPaymentWebhook: repeated, late and concurrent webhooks).
SoldOnce ==
  /\ \A b \in Bookings : payment[b] = "PAID" <=> booking[b].status = "COMPLETED"
  /\ \A b \in WithStatus("COMPLETED") : booking[b].user \in participants
  /\ \A b, c \in WithStatus("COMPLETED") : booking[b].user = booking[c].user => b = c

\* A person holds at most one spot at a time (createPaidBooking's check and
\* the partial unique index on RESERVED bookings).
OneHoldPerUser ==
  \A b, c \in WithStatus("RESERVED") : booking[b].user = booking[c].user => b = c

\* Each sale is announced once and each cancellation by request at most once,
\* whatever is repeated or raced; nothing else is announced.
NotifiedOnce ==
  \A b \in Bookings :
    /\ notices[b].confirmed = IF booking[b].status = "COMPLETED" THEN 1 ELSE 0
    /\ notices[b].cancelled <= IF booking[b].status = "CANCELLED" THEN 1 ELSE 0

\* No step takes a spot the event does not have: bookings, registrations,
\* sales and an organizer's edits of the capacity interleave.
NoOversell == [][Used' > Used => Used' <= event'.capacity]_vars

\* A booking that has ended never changes again and a settled payment never
\* changes again: a late webhook cannot revive what expired or was cancelled,
\* nor a late failure undo a sale.
EndedIsFinal ==
  [][/\ \A b \in Bookings :
          booking[b].status \in {"EXPIRED", "CANCELLED", "COMPLETED"} => booking'[b] = booking[b]
     /\ \A b \in Bookings :
          payment[b] \in {"PAID", "FAILED", "CANCELLED"} => payment'[b] = payment[b]]_vars

\* A spot is sold only on a booking that was within its time when the
\* webhook began, and is expired only once its time is over.
TimeLimitKept ==
  [][\A b \in Bookings :
       /\ (booking[b].status # "COMPLETED" /\ booking'[b].status = "COMPLETED")
            => \E s \in Sessions : sess[s].booking = b /\ sess[s].began < booking[b].expires
       /\ (booking[b].status # "EXPIRED" /\ booking'[b].status = "EXPIRED")
            => booking[b].expires <= now]_vars

\* "Event full" is never answered because of bookings that were already past
\* their time when the request began: expired holds give their spots back.
FullOnlyWhenLive ==
  [][\A s \in Sessions :
       (BookRefused(s) /\ MayOtherwiseBook(s)) =>
         Cardinality(participants) +
         Cardinality({b \in WithStatus("RESERVED") : booking[b].expires > sess[s].began})
           >= event.capacity]_vars

\* Session s waits for what sessions of W have, and for nothing that could come free
\* without one of them: for one row, payment, event or index entry when its next
\* statement needs it, for every stale row that is left when it expires bookings.
WaitsWithin(s, W) ==
  LET Has(t, b) == t # s /\ b \in RowLocks(t)
      HasPayment(t) == /\ sess[t].op = "hook" /\ sess[t].booking = sess[s].booking
                       /\ sess[t].phase \in {"booking", "expire", "enter"}
      asksRow == At(s, "pay", "lock") \/ At(s, "hook", "booking") \/ At(s, "cancel", "body")
      asksEvent == \/ sess[s].op \in {"book", "join"} /\ Swept(s)
                   \/ At(s, "hook", "enter")
      asksEntry(u) == \/ At(s, "join", "enter") /\ u = sess[s].user
                      \/ /\ sess[s].op = "hook" /\ Swept(s) /\ MaySell(s)
                         /\ u = booking[sess[s].booking].user
  IN \/ asksRow /\ \E t \in W : Has(t, sess[s].booking)
     \/ At(s, "hook", "lock") /\ \E t \in W : HasPayment(t)
     \/ /\ sess[s].phase = "expire" /\ ~Swept(s)
        /\ \A b \in Targets(s) \ sess[s].stale : \E t \in W : Has(t, b)
     \/ asksEvent /\ \E t \in W : At(t, "join", "enter")
     \/ \E u \in Users, t \in W \ {s} : asksEntry(u) /\ HasEntry(t, u)

\* The locks are taken in an order (the payment, its booking, the stale rows, the
\* participant's entry and the event) that leaves two ways to wait for each other:
\* whenever requests wait in a circle, of any length, either some of them are expiring
\* rows that others of those have marked, or a registration and a webhook of one person
\* cross: joinFreeEvent takes the event before the entry, the webhook's INSERT the entry
\* before the event.  The provider's call, a webhook's two row locks, a new booking and a
\* cancellation close no circle.
OnlyKnownDeadlocks ==
  \A W \in SUBSET Sessions :
    (W # {} /\ \A s \in W : WaitsWithin(s, W)) =>
      \/ \E D \in SUBSET W : D # {} /\ Deadlocked(D)
      \/ \E s, t \in W : Crossed(s, t)

\* Every request is answered: row locks, the wait for them and the deadlocks of
\* transactions that expire each other's bookings or cross at the event end.
RequestsEnd == \A s \in Sessions : sess[s].phase # "idle" ~> sess[s].phase = "idle"

-----------------------------------------------------------------------------
(* The sales implement the ledger of spots. *)

Ledger == INSTANCE SpotLedger WITH
  capacity <- event.capacity,
  held <- WithStatus("RESERVED"),
  ended <- {b \in Bookings : booking[b].status \in {"EXPIRED", "CANCELLED", "COMPLETED"}},
  owners <- participants

\* Every handler step gives back, takes, sells or leaves alone the spots the
\* way the ledger allows, whatever else is going on.
SpotsLedger == Ledger!Spec

-----------------------------------------------------------------------------
(* Payments and those who end bookings keep out of each other's way.       *)

Payable == INSTANCE PayableBookings WITH
  over <- WithStatus("EXPIRED") \cup WithStatus("CANCELLED") \cup WithStatus("COMPLETED"),
  held <- {sess[s].booking : s \in {t \in Sessions : At(t, "pay", "charge")}},
  recorded <- {b \in Bookings : payment[b] # "NONE"}

\* While a payment calls the provider nobody expires, cancels or sells its booking, not
\* even the sweep it ran itself, and no second payment of it begins: what PaymentRequests
\* takes for granted of the other requests.
PaymentsHold == Payable!Spec

-----------------------------------------------------------------------------
(* What the documents say and the code does not do. *)

\* "Cancelled events cannot be updated" (updateEvent's error message).
CancelledEventStays ==
  [][event.status = "CANCELLED" => event'.status = "CANCELLED"]_vars

=============================================================================
