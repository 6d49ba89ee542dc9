# A TLA+ model of spole-backend

`spole-backend` is an HTTP API (Express, Postgres, Redis) on which people sell and
book places at events, arenas let their slots, and a payment provider reports by
webhook what was paid. This directory holds a TLA+ model of the parts of it that
have a protocol, the TLC runs that check the model, and proofs about its core.

There is no scheduler and no background job in the program: everything that
happens, the expiry of bookings and reservations included, happens in some request.
The state is in Postgres; Redis holds caches, counters and keys that mirror
bookings. What is hard is therefore what concurrent requests, late or repeated
webhooks, failures between two steps and clocks do to each other.

## Inventory

| part (under `src/src/`) | state | operations | meets | hard because |
|---|---|---|---|---|
| bookings, event participants, booking payments (`modules/bookings`, `modules/event-participants`, `modules/payments/service.ts`) | `bookings`, `event_participants`, `payments`, `notifications`, Redis `spole:booking:<id>` | book, join, cancel, list, pay, PAID / FAILED / CANCELLED webhook, expiry in each of them | the event row, the provider | row locks taken in different orders, expiry by whoever comes, webhooks late or repeated, Redis after the commit |
| events (`modules/events`) | `events` | create (free location, or on a reservation), update, cancel | sales, agenda, catalogue | read, merge and write without a lock |
| arena agenda (`modules/reservations`, `modules/slots`, `modules/payments/reservation-payments.ts`) | `arena_slots`, `arena_policies`, `reservations`, `reservation_recurrences`, `reservation_occurrences`, `payments` | create slot, reserve, cancel, pay, webhook, list, maintenance, next occurrence, change of policy | events, the provider | three tables that say the same thing, deadlines, a policy that changes under reservations, generation of next week inside a webhook |
| idempotency (`shared/security/idempotency.ts`) | `idempotency_keys` | find, insert, execute, complete, undo | booking and payment creation | a crash or failure between the operation and its record |
| payment provider (`modules/payments/providers`) | its charges (external) | create a charge, webhook | booking and reservation payments | called inside a transaction, which may fail after it |
| public catalogue cache (`shared/cache`) | Redis version and entries | read through, bump | events, categories, admin | readers that overlap a change |
| rate limiter (`shared/security/rate-limit.ts`) | Redis counters | count, admit or refuse | all routes | INCR and EXPIRE are two calls |
| notifications | `notifications` | insert, list, mark as read | sales | written in the transactions of others |
| administration and audit (`modules/admin`, `shared/middleware/require-auth.ts`) | `users.status`, `arenas.status`, `audit_logs` | change the status of a user, an arena, an event; audit row | events, arenas | user and arena with their row in one transaction, an event in two statements; locks on target and actor; the caller's status is read once |
| categories | `event_categories` | create, update, delete | catalogue | check before delete |
| arenas, spaces (`modules/arenas`, `modules/spaces`) | their tables | create, update, list | agenda, administration | the owner's update meets the administrator's, and the policy meets reservations |
| accounts, authentication | `users` | register, login, the check of each request | all | sequential, but for the status read once |
| infrastructure | none | environment, migrations, health, logging, pagination | all | wiring |

What makes each modelled part correct:

* **Sales.** A spot is never sold twice, sold late, or sold and given back. What
  is paid is sold, once, and announced once. What has ended stays ended. No step
  takes a spot the event does not have. Every request is answered.
* **Agenda.** A slot has one use at a time and its status says which. Reservations,
  occurrences, payments and events agree, whatever the owner makes of the policy.
  Deadlines are kept. Weeks follow each other. Holds end.
* **Idempotency.** One executor at a time; answers with one key are about one
  effect; the effect is not repeated, whatever crashes.
* **Payment requests.** A client is only ever given a charge that a row records, and
  a row is only recorded for a booking that is still held.
* **Administration.** The audit tells the whole history of a user, nothing false of an
  arena, and every cancellation of an event but those a failure hides. An
  administrator is left. Every request ends.
* **Catalogue.** What was announced is shown; the cache converges.
* **Rate limiter.** No more than the limit in a window; windows end.

## Modules

```
SpotLedger      <--refines--  TicketSales      <-- MCTicketSales,      TicketSalesProofs
PayableBookings <--refines--       "
SlotOccupancy   <--refines--  ArenaSchedule    <-- MCArenaSchedule,    ArenaScheduleProofs
OneEffect       <--refines--  IdempotencyKeys  <-- MCIdempotencyKeys,  IdempotencyKeysProofs
                                    ^ extended by
OneEffect       <--refines--  PaymentRequests  <-- MCPaymentRequests,  PaymentRequestsProofs
PayableBookings <--refines--       "
                              Administration   <-- MCAdministration,   AdministrationProofs
                              CatalogCache     <-- MCCatalogCache,     CatalogCacheProofs
                              RateLimiter      <-- MCRateLimiter,      RateLimiterProofs
```

PaymentRequestsProofs also extends IdempotencyKeysProofs: the composition uses the
lemmas of the protocol it is built on.

`MC...` modules only give constants their values. A definition named
`Name_Variant`, placed before `Name`, is a mutated form of it, a plausible bug; each
checked property is violated when one of them takes the place of the original. The
variants are no part of the specifications.

### TicketSales

One event. A *session* is a request handler in the middle of one operation: its
`phase` says what it waits for or does next, `began` is its transaction's `now()`,
and `stale` holds the bookings its expiry has marked and not committed. Row locks
are not a variable: `RowLocks(s)` and `PaymentFree(b)` derive them from the
sessions.

| action | code |
|---|---|
| `ExpireRow`, `CommitExpiry` | `expireStaleBookings`: row by row, each waiting for its lock; a statement of its own for lists and cancellations, part of the transaction elsewhere |
| `Book`, `BookRefused`, `SetKey`, `SetKeyFails` | `createPaidBooking`, its SETEX after COMMIT and the compensation when that fails |
| `JoinLock`, `JoinRefused` | `joinFreeEvent`: the event `FOR UPDATE` and the checks |
| `Join`, `JoinRepeated` | its INSERT, which waits for an entry of `UNIQUE (event_id, user_id)` not yet committed, and COMMIT, or `ALREADY_REGISTERED` |
| `Cancel`, `CancelRefused`, `DelKey` | `cancelBooking` |
| `PayLock`, `PayCharge`, `PayRefused`, `PayRecord`, `PayConflict` | `createPendingPaymentForBooking` |
| `HookLock`, `HookSettled`, `HookBooking`, `HookEnter`, `HookRefused` | `processPaymentWebhook`, to the participant's index entry |
| `HookSell` | the foreign key of that participant, which waits for the event, and COMMIT |
| `MarkNonPaid` | `markBookingPaymentNonPaid`, one transaction on one row; asked for where `Requests` has `nonPaid` |
| `EditEvent`, `WriteEdit`, `CancelEvent` | `updateEvent` (read and merge, then write) and `cancelEvent` |
| `Crash`, `BreakDeadlock`, `Tick`, `KeyExpires` | the environment |

Atomicity. Two inserts of a participant may wait for each other, so they are steps of
their own (the phase `enter`). A registration has the event `FOR UPDATE` and waits for
the entry of the same person in the unique index; a webhook puts that entry first and
waits for the event because of its foreign key. Both happen when the event was edited
from PAID to FREE after the booking, and then they are in a circle (`Crossed`). A booking
waits for the event too, but once it has it, it decides, inserts and commits without
waiting again, which is one step. So do the writes of an organizer, `WriteEdit` and
`CancelEvent`. The other foreign keys close no circle: those to `users` wait only for an
administrator's `FOR UPDATE`, and an administrator who has one waits only for
administrators. What precedes the decision, the expiry, is
row by row. The sweep is evaluated at the moment of the decision: the bookings stale
at `began` are marked, none is left. In the code the sweep precedes the wait for the
event row, and a booking inserted during that wait could be stale only if the wait
lasted longer than `BOOKING_TTL_SECONDS` (1800 s by default): transactions that long
are outside the model. The wall-clock check of a webhook and its commit are one step.
`Crash` is also a dropped connection and a provider call that fails.

Left out: amounts, private codes, roles, formats, the provider's own state. FREE and
PAID, capacity and status are all of an event row that decisions read.

### SpotLedger

What selling promises, with no requests, locks or payments: spots are held, given
back, or sold to their holder; registrations take free spots; an ended hold never
comes back. `TicketSales!SpotsLedger` maps bookings to holds.

### PayableBookings

What payments and the requests that end bookings owe to each other, with no sessions,
locks or limits: a payment that has found its booking payable holds it until it is
recorded or given up; nobody expires, cancels or sells a booking that is held, and no
second payment of it begins. Two modules implement it. In TicketSales the other requests
are all there and the calls to the provider are one step; in PaymentRequests the calls
are there and `BookingEnds` stands for the other requests. What `BookingEnds` takes for
granted of them is therefore what the sales are shown to do.

### ArenaSchedule

The agenda of one arena, the occurrences identified with the slots generated for
them. Here transactions take effect in one step. Each locks all rows it decides on
and holds them to its end (two-phase locking), so it can be placed at the moment it
has its last lock. What is *not* protected by locks is kept apart in the session:
`began` (`now()` of the transaction), `free` (the answer of the overlap query of a
webhook or of a new slot, an earlier step `Look`) and the unlocked read of
`cancelEvent` (its `Start`). A reservation confirmed at once makes that query too, but
its own query has locked the rows of the slot, the space and the policy `FOR UPDATE`
(`reservations/service.ts:91-95`). Any other insert of a slot of that space, by
`createSlot` or by another generation, waits for the space's row because of its foreign
key; there the query is part of the step.

| action | code |
|---|---|
| `Maintain`, `MaintainFails` | `runMaintenance`; in other transactions `Maintained(t)` is part of the action, and is undone by a refusal |
| `Reserve`, `ReserveRefused` | `createReservation`, with the immediate confirmation when nothing is to be paid |
| `Cancel`, `CancelRefused` | `cancelReservation` |
| `Pay`, `PayRefused` | `createPendingPaymentForReservation`, `...ForOccurrence` |
| `HookReservation`, `HookOccurrence`, `HookRepeated`, `HookRefused`, `MarkNonPaid` | `processReservationPaymentWebhook`, `confirm...InTransaction`, `markReservationPaymentNonPaid` |
| `Generated` (in several actions) | `generateNextWeeklyOccurrence` |
| `Look`, `CreateSlot`, `CreateSlotRefused` | `hasBlockingSlotOverlap`, `createSlot` |
| `CreateEvent`, `CancelEvent` | `createArenaReservationEvent`, `cancelEvent` |
| `UpdatePolicy` | `updateArena`, of the policy |
| `Tick`, `Crash` | time; a process that dies or a connection that drops |

Slots occupy one cell of a weekly grid (a lane, that is a space and a time of the
week, in one week), so that overlap is equality. The variable `policy` has what
decisions read of `arena_policies`: whether the percentage is zero (`charges`), whether
recurring reservations are allowed, and the hours of notice. A reservation keeps what
it was asked for (`charged`), an occurrence is asked for what the policy says when it
is paid. The recurrence row is folded into
its reservation: `active` is never set to false. Prices, addresses and authorization
are left out. `updateEvent` is not repeated here: its lost update is in TicketSales.

### SlotOccupancy

What an agenda promises: a slot has at most one use at a time, a use begins on a free
slot, and a use that is over does not begin again. A use is a reservation or an
occurrence.

### OneEffect

What an idempotency key promises, with no rows, clock or concurrent requests: the
operation takes effect, every answer is about that effect, and it may take effect again
only when the one before was forgotten, which a failing query can bring about as long
as nobody was answered. `IdempotencyKeys!KeyPromise` reads `unsaved`, the effects a
failed query hid, as the forgotten ones.

### IdempotencyKeys

The requests of one user with one key on one route, and the row they share. `Found`
is the query that ignores expired rows and `Free` the unique index that does not.
The operation executed either takes effect and returns or throws and leaves nothing:
it is a transaction of another module (PaymentRequests puts one there).
`CompleteFails` covers a query that fails before and one that fails after Postgres has
done it, `ExecuteUnknown` an operation whose COMMIT succeeded and whose answer was
lost, so that it throws having taken effect.

### PaymentRequests

IdempotencyKeys with a real operation inside: `createPendingPaymentForBooking` run by
`runWithIdempotency` (`modules/payments/routes.ts`), the provider's charges, and
requests without the key that meet the others only in the tables.

| action | code |
|---|---|
| `Begin`, `NotPayable` | `BEGIN`, `SELECT ... FOR UPDATE` of the booking, its checks |
| `CreateCharge`, `ChargeFails` | `createPixCharge`: two calls, either of which may fail when the charge exists |
| `Record`, `Conflict` | `INSERT INTO payments` and COMMIT, or `PAYMENT_ALREADY_EXISTS` |
| `RecordUnknown` | COMMIT done, its answer lost |
| `AnswerCharge`, `KeyStep` | the steps of IdempotencyKeys |
| `LimitPasses`, `BookingEnds` | time, and the transactions of TicketSales that end a booking once its row is free |
| `CrashTx` | the process dies; Postgres rolls back |

`created` has the provider's charges, `payment` the rows, `shown` what clients were
given: the three differ by what fails between them.

### Administration

The statuses of users, arenas and events, the audit rows about each, in the order of
their commits, and the requests that change them.

| action | code |
|---|---|
| `Send...` | `requireAuth`, `requireRoles`, `assertNotSelf` |
| `Lock`, `Refuse`, `Commit` | `patchAdminUserStatus`, `patchAdminArenaStatus`: `FOR UPDATE`, the table of moves, `UPDATE`, `insertAuditLog`, COMMIT |
| `Look`, `Load`, `CancelEvent`, `Audit` | `patchAdminEventStatus` and the `cancelEvent` in it; `Load` and `CancelEvent` are also `DELETE /events/:id` |
| `Load`, `WriteEvent` | `updateEvent` |
| `UpdateArena` | `updateArena`, of the status |
| `Fails`, `BreakDeadlock` | a query fails or the process dies; Postgres's detector |

The foreign key of an audit row takes a share lock on its actor's row, which waits for
whoever has it `FOR UPDATE` (`ActorFree`): two administrators who change each other
deadlock. Roles do not change; names and other columns are left out. The history
variable `told` counts what the audit may miss.

### CatalogCache

The catalogue is the number of changes committed; an entry holds the number it was
loaded at. Every `await` is a step. `Faults` says which Redis calls may fail. A bump
that fails is swallowed by the code, and the change is answered all the same; `Fresh`
therefore promises only changes whose bump succeeded, and `Converges` covers the
others. Losing the version key alone (an eviction) is not modelled.

### RateLimiter

One counter. The counter stops at `MaxRequests + 2`, a bound of the model: Redis counts
on, but the code tells apart only 1, at most the limit, and more. `FailOpen` covers a command that failed before
and one that failed after Redis had done it.

## Runs

| run | states | what it shows |
|---|---|---|
| `sales_safety` | 987,769 | one spot, two people, two bookings, two concurrent requests: type, sales, notifications, finality, deadlines, and refinement of SpotLedger and PayableBookings |
| `sales_edits` | 2,139,208 | bookings, registrations, payments, webhooks, lists and SETEX failures while the event shrinks, becomes free or is cancelled: one hold per person, no overselling, no false "event full", and two known kinds of deadlock |
| `sales_progress` | 612,272 | bookings, registrations, payments and webhooks while the event becomes free, with both kinds of deadlock: waits end, every request is answered |
| `agenda` | 2,384,422 | two reservations, single or recurring, one generated slot, an event, and a policy that stops asking for payment: the tables agree, deadlines are kept, and refinement of SlotOccupancy |
| `agenda_weekly` | 275,006 | a recurrence over three weeks, a slot created in next week's place: week by week, and holds end |
| `payment_keys` | 1,028,163 | three at once with a key and one without pay two bookings, with failing calls and queries, lost commits, crashes, expiry: one executor, charges that are recorded, and refinement of OneEffect and PayableBookings |
| `admin_audit` | 140,652 | two administrators and an organizer, two requests at once: audit, who may leave no administrator, deadlocks that Postgres can end, requests end |
| `catalog_lists` | 53,088 | reads and changes with every Redis fault: fresh lists, old lists that do not feed the cache again, convergence |
| `rate_windows` | 4,043 | limit kept, an end set or due, and windows that end under failures |
| `agenda_cancels` | violated | two cancellations of an event free a slot twice |
| `sales_revived` | violated | an edit undoes a cancellation |
| `keys_reused` | violated | a different request is replayed another's answer |

Bounds, all in the constants. *Sessions*: two concurrent requests; the races listed
below are between two, and a third party's completed request can come between any two
steps of theirs since a session is reused; the key and limiter runs have three.
*Ids*: two bookings or reservations, enough for a conflict and for a successor of an
ended one; three slots in the weekly run (own, next, the one after); three charges for
two bookings, so that one can be lost and replaced. *Time*: a time to
live of one tick and a clock of one to three ticks put every row before, at and after
its limit while a request began earlier. *Requests* names the operations asked for;
between the runs of a module all are asked for; `RequestsEnd` of the sales is checked for
those that wait with locks held (book, join, pay, webhook). The pool of connections is
not modelled: a request waits for rows, not for a connection. *MaxCancels* is 1 in `agenda`, because
2 is the finding; it bounds the environment and not the code, and the theorems that
hold only there assume less (see `CancelsLive` below). *MaxRequests* is three or four: the races of Administration and of the
keys take two, and the third comes after them. *Policies* has one other policy, which
asks for nothing: the moves to it are the ones that could let a reservation be
confirmed unpaid. *Edits* are halving the capacity and giving the event away. Symmetry
is used for safety only. The safety properties are also proved for all values of these
constants, so that the bounds matter for liveness and for finding mistakes early.

### Fairness

`TicketSales`: strong fairness of each session's progress. Handlers run on until they
wait; Postgres grants a row lock in the order of arrival, so a waiter is not passed
over for ever, which is what strong fairness says of a step enabled again and again;
its detector breaks deadlocks. Nothing is assumed about arrivals, webhooks, time,
crashes or edits. `ArenaSchedule`: weak fairness of the sessions and of the clock, and
strong fairness of list requests and of their maintenance: nothing else releases what
is overdue, so `HoldsEnd` is a promise to an arena with traffic and is stated as such.
`Administration`: strong fairness of the steps that wait for a row (Postgres queues its
waiters) and weak fairness of the others, the deadlock detector's included.
`CatalogCache`, `RateLimiter`: requests are served and times to live end.

### Disagreements

Three are run as violations:

* *Two cancellations* (`agenda_cancels`). `cancelEvent` reads the event unlocked and
  then frees the slot unconditionally. If the slot has been reserved between two
  cancellations, the second frees it under the new reservation and it can be reserved
  again. `docs/01-sprints/sprint-05.md:52`: "Um slot não pode ter mais de uma reserva
  ativa ao mesmo tempo."
* *Lost cancellation* (`sales_revived`). `updateEvent` writes every column of a row it
  read earlier. `events/service.ts:707`: "Cancelled events cannot be updated".
* *Replay of another request* (`keys_reused`). After losing the insert, the stored
  answer is replayed without comparing the hash. `README.md:82`: 409
  `IDEMPOTENCY_KEY_REUSED`.

Others were met while modelling. The model has these behaviours, the properties are
stated so as to hold with them, and no run is spent on them:

* a booking whose charge FAILED cannot be charged again: the unique index keeps the
  failed row (`docs/02-features/payments.md:260` says to create a new one);
* a booking's Redis key may be set after the booking was cancelled
  (`docs/02-features/bookings.md:7`); nothing reads the key;
* a webhook sells a spot on an event cancelled since the booking;
* `createSlot` compares with AVAILABLE slots only, and without a lock, so slots may
  overlap (`docs/02-features/slots.md:18`);
* when next week's cell is taken no occurrence is generated, then or later
  (`docs/01-sprints/sprint-10.md:65`);
* cancelling a recurring reservation leaves its occurrences payable and generating;
* an idempotency row past its time to live still blocks its key, with
  IDEMPOTENCY_IN_PROGRESS, for ever;
* a lost bump keeps old lists served from the cache, not from Postgres as the comment
  at `public-catalog-cache.ts:84` says, until their time to live ends;
* two administrators can suspend each other, since the caller's status is read once per
  request (`README.md:80` says SUSPENDED blocks authenticated routes): `AdminLeft` says
  that the step which leaves no administrator is of that kind;
* an effect whose COMMIT or `completeIdempotency` failed is forgotten, and the same
  request with the same key takes effect again: `docs/01-sprints/sprint-12.md:73,80` says
  that sending it again cannot duplicate the effect, and that a failure of the
  idempotency component cannot do so silently. `KeyPromise` has that exception and no
  other; what then stops a second payment is the unique index on its booking;
* a registration and a webhook of one person deadlock on an event edited from PAID to
  FREE; Postgres ends one, and a webhook ended so is answered 500 and left to the
  provider to repeat: `OnlyKnownDeadlocks`;
* `DELETE /events/:id` and `updateArena` by an administrator leave no audit row, and the
  row about an event is lost when a query fails after the cancellation, or when an edit
  revives the event between the two reads of its status
  (`docs/01-sprints/sprint-11.md:185,195`); an event's row may also tell of a
  cancellation that somebody else made;
* an occurrence generated while the policy asked for payment cannot be paid once the
  policy asks for nothing (`OCCURRENCE_NO_PAYMENT_REQUIRED`,
  `reservation-payments.ts:254`): it is released when due;
* a refused or failed payment request leaves its charge with the provider, as
  `docs/99-tech-debt.md:25` expects; `ShownIsRecorded` says that nobody is given it;
* if EXPIRE is lost after the first INCR the counter has no end, and the Retry-After
  of `rate-limit.ts:70` is never honoured: `WindowEnds` says "or lost".

## Proofs

Every safety invariant and every action property of the passing runs, and the
six refinements of the four abstract modules, are proved by TLAPS for all values of the
constants. Each proof module extends the module it is about and assumes only the
ASSUMEs declared there, which TLC evaluates in the runs; five theorems about the agenda
are about the executions in which no cancellation is late, and say so.

The abstract modules are proved to be enough: `LedgerSuffices`, `OccupancySuffices` and
`PromiseSuffices` derive `NoOversell`, `OneUsePerSlot`, and `AnswersAgree`, `EffectOnce`
and `AnsweredIsFinal` from them alone, `PayableSuffices` that a booking gets a payment
only while it is held and has not ended, so that a reader may judge what is promised by a
page without requests, locks or rows, and believe the rest because it refines it.

**TicketSalesProofs** (any finite sets of people and bookings, any sessions, limits,
event and edits). `IInv` is the conjunction of

* `TypeOK`;
* `SessionShape`: which fields a session has in which phase, so that for instance a
  webhook at the point of selling has a booking;
* `RowsOwned`: a booking that is not NONE has an owner, so that a sale makes a user a
  participant;
* `LocksExclusive`: a row a session has marked is RESERVED for everyone else; without
  it two sessions could sell and expire one booking;
* `HookOwnsPayment`: while a webhook is between its locks the payment it read is still
  PENDING; without it a failure could settle the payment under the sale;
* `HookEntered`: while a webhook waits for the event with its entry in the index, nobody
  else registers or sells to that person; without it a participant could be inserted
  twice;
* `JoinEntered`: while a registration waits for that entry there is room for it;
* `Tables`: payments, bookings, participants and notifications agree.

The properties are read off it, or need one more step. `SpotsLedger` (the refinement)
maps every step to one of SpotLedger; `NoOversell` follows from that by counting.
`PaymentsHold` adds `ChargesHeld`: while a payment calls the provider its
booking is RESERVED and its row is its own. `TimeLimitKept` needs `Overdue`, that what a request has marked is past its limit by
the clock, even after the request forgets when it began.

Two theorems are the part of `RequestsEnd` that needs no fairness. `RequestsBounded`:
every step of a request brings it nearer to its end by a count of what it has left
(`StepsLeft`), so that it takes at most |Bookings| + 5 steps, whatever the others do
between them; there is no retry, and no row is expired twice. `OnlyKnownDeadlocks`:
whenever requests wait in a circle, of any length and through rows, payments, index
entries or the event, either some of them are expiring rows that others of those have
marked, or a registration and a webhook of one person cross, and these are what
`BreakDeadlock` (Postgres's detector) ends. The argument is the order of the locks: who
has the event is a registration, and waits only for an entry; who has an entry is a
webhook past its expiry, and waits only for the event, so that these two cross. Without
them a payment is only waited for by webhooks at their first lock, whose holder waits for
a row; the holder of a row that waits for another is expiring; so the expiring ones among
the waiting wait for each other. What is left to fairness is that a request which can go
on does.

**ArenaScheduleProofs** (any finite sets of slots, reservations and requests, any weeks,
policies and times). A transaction is a maintenance and at most two changes of the
three tables, so each change is proved once, with the tables as parameters, and
composed. `AInv` is

* `TypeOK` and `SessShape`;
* `Tied`: rows refer to rows that exist;
* `Weeks`: `WeekByWeek`, and that an unpaid occurrence is the last one of its
  recurrence, without which a payment could generate next week twice;
* `Agree`: `PaidIsConfirmed` and `EventOnReservation`, row by row.

It holds however many events are cancelled at once, and gives `WeekByWeek`,
`EventOnReservation`, `PaidIsConfirmed`, `EndedIsFinal` and `DeadlinesKept`. That a slot
has one use is *not* implied: `agenda_cancels` shows it fail with two cancellations at
once. `FInv` adds `Fits` (uses are unique and the slot's status shows them), and is
inductive as long as every step is `CancelsLive`: no cancellation is of an event that
is cancelled already. `OneUsePerSlot`, `SlotShowsUse` and the refinement `SlotsOccupied`
are theorems about those executions, however many events are cancelled and by how many
requests at once. `ApartIsEnough` says when there are no others: when no two
cancellations of one event overlap (`CancelsApart`); `BoundKeepsApart` that the bound of
the run `agenda` brings this about. In this model, then, the unlocked read of
`cancelEvent` is the only way the agenda loses these properties. `HoldsRunOut` is the part of
`HoldsEnd` that needs no fairness: the deadline of a hold is fixed when it begins, no
request puts it off, and the first successful maintenance of a transaction that began at
it or later ends the hold.

**IdempotencyKeysProofs**, **PaymentRequestsProofs**. `KInv` says that whoever runs the
operation owns the row (`OneExecutor`), that the effects are the row's own and those a
failed query hid (`Counts`), and that what is answered is what the COMPLETED row stores
(`Results`). Each step of PaymentRequests is a step of the protocol or leaves it alone,
so `KInv` is kept. `Exact` says that at most the last effect is remembered, and
that the result about to be stored or stored in the row is that one: with it each step is one of OneEffect
(`KeyKeepsPromise`, and `PayKeepsPromise` for the composition). `PInv` adds what a transaction has locked and charged, and that what
was stored or shown is recorded. `RowsApart`, that no two transactions have one row, makes
each step one of PayableBookings.

**AdministrationProofs**. `IInv` says that what a transaction read of the row it has
locked is what the row still says; `AuditTrail` and `ArenaRowsTrue` follow.
`CancelsAudited` is a count over the requests in progress, kept by lemmas on
cardinalities. `CirclesBroken` takes any set of requests that all wait for one of
themselves: the smallest such set (it exists because sets of requests are finite) is of
administrators at their audit rows who have each other's rows, and Postgres refuses one.
With `RequestsBounded` (four steps to the end) this is the part of `RequestsEnd` that
needs no fairness.

**CatalogCacheProofs**. The invariant is existential: some function `f` from versions to
changes says what each version promises, and entries and readers under a version hold
at least that. A bump extends `f` by one. `OldListsRunOut` is the part of `Converges` that
needs no fairness, and a run checks it too: while the catalogue stays as it is, no request becomes one that is about
to store an old list, and each that is puts at most one old entry back. After that only the
times to live are left to wait for.

**RateLimiterProofs**. `LimitKept` with `admitted <= count`. `EndIsDue`: a counter
without an end has its EXPIRE under way or lost, whatever windows end between the two
calls; `WindowEnds` follows from it under fairness, which TLC checks.

Not proved: the liveness properties (`RequestsEnd`, `HoldsEnd`, `Converges`,
`WindowEnds`), which are out of the prover's reach and are model-checked under the
fairness above. Of each of them the safety it rests on is proved, as
said (`RequestsBounded`, `OnlyKnownDeadlocks`, `CirclesBroken`, `HoldsRunOut`,
`StaleRunsOut`, `EndsAreDue`); that a step stays enabled until it is taken is not, because
it speaks of ENABLED.
That `WaitsWithin` and `Blocker`, by which the two theorems on circles define waiting,
are exactly the requests without an enabled step of their own is for the same reason a
matter of reading: they repeat the guards of the waiting actions.

## Not modelled

* *Registration and login*: single statements; what matters of authentication
  elsewhere, the status of the caller, is in Administration.
* *Creation and lists of arenas, spaces and slots*, pagination, the admin's lists, the
  seed scripts: single statements or one transaction that nobody races with.
* *createEvent* at a free location, private codes, amounts and formats.
* *Categories*: the checks of slug and usage before the write are decided by the unique
  and foreign keys, which turn a lost race into an error of another code; only the
  commit and the bump are modelled, in CatalogCache.
* *Notifications once written*: marking as read is one idempotent UPDATE.
* *The provider's side*: when it reports, retries or refunds is its choice, and the
  model leaves it any.
* *Infrastructure*: environment, migrations, health, logging.

They are listed with reasons in `PROJECT.json`. The deployment is taken to be one
Postgres at READ COMMITTED with any number of API processes.

## Plan

Done, in this order: TicketSales with its ledger; ArenaSchedule with its occupancy;
IdempotencyKeys, CatalogCache, RateLimiter; PaymentRequests; Administration; the proofs
of each.

Left:

1. `createPaidBooking` as the operation inside the key, as PaymentRequests does for
   payments: its compensation after a failed SETEX runs inside `execute()`.
2. The payment of reservations next to the provider's charges; it follows the same
   pattern as that of bookings (`createPendingPaymentForReservation`).
3. The eviction of the catalogue's version key alone: a missing key is read as version
   `"0"` (`getPublicCatalogVersion`), so entries of an early version that are still within
   their TTL would be current again.
