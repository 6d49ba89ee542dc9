------------------------- MODULE TicketSalesProofs -------------------------
(***************************************************************************)
(* Proofs about TicketSales, for every number of users, bookings and       *)
(* concurrent requests, every time limit and every set of edits.           *)
(***************************************************************************)
EXTENDS TicketSales, FiniteSetTheorems, TLAPS

-----------------------------------------------------------------------------
(* Type correctness. *)

LEMMA IdleSessionType == IdleSession \in Session
BY DEF IdleSession, Session, Op, Phase

LEMMA BecomeType ==
  ASSUME TypeOK, NEW s \in Sessions, NEW r \in Session, Become(s, r)
  PROVE  sess' \in [Sessions -> Session]
BY DEF TypeOK, Become

LEMMA AfterType ==
  ASSUME TypeOK, NEW s \in Sessions, NEW b \in Bookings \cup {NoBooking},
         NEW p \in Phase
  PROVE  After(s, p, b) \in Session
BY DEF TypeOK, After, IdleSession, Session, Op, Phase

LEMMA AfterExpiryType ==
  ASSUME TypeOK, NEW s \in Sessions
  PROVE  AfterExpiry(s) \in [Bookings -> BookingRow]
BY DEF TypeOK, AfterExpiry, BookingRow, BookingStatus

LEMMA DelKeysType ==
  ASSUME TypeOK, NEW B, DelKeys(B)
  PROVE  keys' \in SUBSET Bookings
BY DEF TypeOK, DelKeys

LEMMA CountType ==
  ASSUME TypeOK, NEW b
  PROVE  /\ [notices EXCEPT ![b].cancelled = @ + 1] \in [Bookings -> Counts]
         /\ [notices EXCEPT ![b].confirmed = @ + 1] \in [Bookings -> Counts]
<1>1. CASE b \notin Bookings
  BY <1>1 DEF TypeOK
<1>2. CASE b \in Bookings
  <2>1. notices[b].cancelled + 1 \in Nat /\ notices[b].confirmed + 1 \in Nat
    BY <1>2 DEF TypeOK, Counts
  <2>2. /\ [notices[b] EXCEPT !.cancelled = notices[b].cancelled + 1] \in Counts
        /\ [notices[b] EXCEPT !.confirmed = notices[b].confirmed + 1] \in Counts
    BY <1>2, <2>1 DEF TypeOK, Counts
  <2>3. QED BY <1>2, <2>2 DEF TypeOK
<1>3. QED BY <1>1, <1>2

LEMMA AbandonType ==
  ASSUME TypeOK, NEW s \in Sessions, Abandon(s)
  PROVE  TypeOK'
<1>1. sess' \in [Sessions -> Session]
  BY IdleSessionType, BecomeType DEF Abandon, Finish
<1>2. QED BY <1>1 DEF TypeOK, Abandon

LEMMA GiveUpType ==
  ASSUME TypeOK, NEW s \in Sessions, GiveUp(s)
  PROVE  TypeOK'
<1>1. sess' \in [Sessions -> Session]
  BY IdleSessionType, BecomeType DEF GiveUp, Finish
<1>2. keys' \in SUBSET Bookings
  BY DelKeysType DEF GiveUp
<1>3. QED BY <1>1, <1>2 DEF TypeOK, GiveUp

LEMMA GotoType ==
  ASSUME TypeOK, NEW s \in Sessions, NEW p \in Phase, Goto(s, p)
  PROVE  TypeOK'
<1>1. [sess[s] EXCEPT !.phase = p] \in Session
  BY DEF TypeOK, Session
<1>2. sess' \in [Sessions -> Session]
  BY <1>1, BecomeType DEF Goto
<1>3. QED BY <1>2 DEF TypeOK, Goto

LEMMA EnterType ==
  ASSUME TypeOK, NEW s \in Sessions, Enter(s)
  PROVE  TypeOK'
<1>1. [sess[s] EXCEPT !.phase = "enter"] \in Session
  BY DEF TypeOK, Session, Phase
<1>2. sess' \in [Sessions -> Session]
  BY <1>1, BecomeType DEF Enter
<1>3. QED BY <1>2, DelKeysType DEF TypeOK, Enter

LEMMA StartType ==
  ASSUME TypeOK, NEW s \in Sessions, NEW op, NEW p \in Phase,
         NEW u \in Users \cup {NoUser}, NEW b \in Bookings \cup {NoBooking},
         Start(s, op, p, u, b), op \in Op
  PROVE  TypeOK'
<1>1. [IdleSession EXCEPT !.op = op, !.phase = p, !.user = u,
                          !.booking = b, !.began = now] \in Session
  BY DEF TypeOK, IdleSession, Session, Op, Phase
<1>2. sess' \in [Sessions -> Session]
  BY <1>1, BecomeType DEF Start
<1>3. QED BY <1>2 DEF TypeOK, Start

\* Which rows and people a session's step refers to: what its type alone does
\* not say.
WellFormed(r) ==
  /\ r.op \in {"pay", "hook", "cancel"} \/ r.phase = "redis" => r.booking \in Bookings
  /\ r.op \in {"book", "join"} /\ r.phase \in {"expire", "enter"} => r.user \in Users
  /\ r.stale # {} => r.phase \in {"expire", "charge", "enter"}
SessionShape == \A s \in Sessions : WellFormed(sess[s])

\* A row in use belongs to somebody.
RowsOwned == \A b \in Bookings : booking[b].status # "NONE" => booking[b].user \in Users

\* What a webhook found before its participant's entry went in still holds: its booking
\* is live and the owner has not been registered otherwise.
HookEntered ==
  \A s \in Sessions : At(s, "hook", "enter") =>
    /\ booking[sess[s].booking].status = "RESERVED"
    /\ sess[s].booking \notin sess[s].stale
    /\ booking[sess[s].booking].user \notin participants

\* What a registration found under the event's lock still holds, and it has that lock
\* alone.
JoinEntered ==
  \A s \in Sessions : At(s, "join", "enter") =>
    /\ UsedAfterExpiry(s) < event.capacity
    /\ \A t \in Sessions \ {s} : ~At(t, "join", "enter")

LEMMA ArriveType ==
  ASSUME TypeOK, NEW s \in Sessions, Arrive(s)
  PROVE  TypeOK'
<1>1. ASSUME NEW u \in Users, StartBook(s, u) PROVE TypeOK'
  BY <1>1, StartType DEF StartBook, Op, Phase
<1>2. ASSUME NEW u \in Users, StartJoin(s, u) PROVE TypeOK'
  BY <1>2, StartType DEF StartJoin, Op, Phase
<1>3. ASSUME NEW u \in Users \cup {NoUser}, StartList(s, u) PROVE TypeOK'
  BY <1>3, StartType DEF StartList, Op, Phase
<1>4. ASSUME NEW b \in Bookings, StartCancel(s, b) PROVE TypeOK'
  BY <1>4, StartType DEF StartCancel, Op, Phase
<1>5. ASSUME NEW b \in Bookings, StartPay(s, b) PROVE TypeOK'
  BY <1>5, StartType DEF StartPay, Op, Phase
<1>6. ASSUME NEW b \in Bookings, StartHook(s, b) PROVE TypeOK'
  BY <1>6, StartType DEF StartHook, Op, Phase
<1>7. QED BY <1>1, <1>2, <1>3, <1>4, <1>5, <1>6 DEF Arrive

LEMMA ProgressType ==
  ASSUME TypeOK, SessionShape, RowsOwned, HookEntered, NEW s \in Sessions, Progress(s)
  PROVE  TypeOK'
<1> USE DEF Phase
<1>0. /\ AfterExpiry(s) \in [Bookings -> BookingRow]
      /\ sess[s] \in Session
  BY AfterExpiryType DEF TypeOK
<1>1. ASSUME NEW b \in Bookings, ExpireRow(s, b) PROVE TypeOK'
  <2>1. [sess[s] EXCEPT !.stale = @ \cup {b}] \in Session
    BY <1>0 DEF Session
  <2>2. sess' \in [Sessions -> Session]
    BY <1>1, <2>1, BecomeType DEF ExpireRow
  <2>3. QED BY <1>1, <2>2 DEF ExpireRow, TypeOK
<1>2. ASSUME NEW b \in Bookings, Book(s, b) PROVE TypeOK'
  <2>1. [status |-> "RESERVED", user |-> sess[s].user, expires |-> sess[s].began + TTL]
          \in BookingRow
    BY <1>0, TimeAssumption DEF Session, BookingRow, BookingStatus
  <2>2. booking' \in [Bookings -> BookingRow]
    BY <1>0, <1>2, <2>1 DEF Book
  <2>3. sess' \in [Sessions -> Session]
    BY <1>2, AfterType, BecomeType DEF Book
  <2>4. QED BY <1>2, <2>2, <2>3, DelKeysType DEF Book, TypeOK
<1>3. ASSUME CommitExpiry(s) PROVE TypeOK'
  <2>1. sess' \in [Sessions -> Session]
    <3>1. CASE sess[s].op = "list"
      BY <1>3, <3>1, IdleSessionType, BecomeType DEF CommitExpiry, Finish
    <3>2. CASE sess[s].op # "list"
      <4>1. After(s, "body", sess[s].booking) \in Session
        BY <1>0, AfterType DEF Session
      <4>2. QED BY <1>3, <3>2, <4>1, BecomeType DEF CommitExpiry
    <3>3. QED BY <3>1, <3>2
  <2>2. QED BY <1>0, <1>3, <2>1, DelKeysType DEF CommitExpiry, TypeOK
<1>4. ASSUME BookRefused(s) PROVE TypeOK'
  BY <1>4, GiveUpType DEF BookRefused
<1>5. ASSUME SetKey(s) PROVE TypeOK'
  <2>1. sess' \in [Sessions -> Session]
    BY <1>5, IdleSessionType, BecomeType DEF SetKey, Finish
  <2>2. sess[s].booking \in Bookings
    BY <1>5 DEF SetKey, At, SessionShape, WellFormed
  <2>3. QED BY <1>5, <2>1, <2>2 DEF SetKey, TypeOK
<1>6. ASSUME SetKeyFails(s) PROVE TypeOK'
  <2>1. sess' \in [Sessions -> Session]
    BY <1>6, IdleSessionType, BecomeType DEF SetKeyFails, Finish
  <2>2. booking' \in [Bookings -> BookingRow]
    BY <1>6 DEF SetKeyFails, TypeOK, BookingRow, BookingStatus
  <2>3. QED BY <1>6, <2>1, <2>2, DelKeysType DEF SetKeyFails, TypeOK
<1>7. ASSUME Join(s) PROVE TypeOK'
  <2>1. sess' \in [Sessions -> Session]
    BY <1>7, IdleSessionType, BecomeType DEF Join, Finish
  <2>2. sess[s].user \in Users
    BY <1>7 DEF Join, At, SessionShape, WellFormed
  <2>3. QED BY <1>0, <1>7, <2>1, <2>2 DEF Join, TypeOK
<1>8. ASSUME JoinRefused(s) PROVE TypeOK'
  BY <1>8, GiveUpType DEF JoinRefused
<1>9. ASSUME Cancel(s) PROVE TypeOK'
  <2>1. [sess[s] EXCEPT !.phase = "redis"] \in Session
    BY <1>0 DEF Session
  <2>2. sess' \in [Sessions -> Session]
    BY <1>9, <2>1, BecomeType DEF Cancel
  <2>3. booking' \in [Bookings -> BookingRow]
    BY <1>9 DEF Cancel, TypeOK, BookingRow, BookingStatus
  <2>4. notices' \in [Bookings -> Counts]
    BY <1>9, CountType DEF Cancel
  <2>5. QED BY <1>9, <2>2, <2>3, <2>4 DEF Cancel, TypeOK
<1>10. ASSUME CancelRefused(s) PROVE TypeOK'
  BY <1>10, AbandonType DEF CancelRefused
<1>11. ASSUME DelKey(s) PROVE TypeOK'
  <2>1. sess' \in [Sessions -> Session]
    BY <1>11, IdleSessionType, BecomeType DEF DelKey, Finish
  <2>2. QED BY <1>11, <2>1, DelKeysType DEF DelKey, TypeOK
<1>12. ASSUME PayLock(s) PROVE TypeOK'
  BY <1>12, GotoType DEF PayLock
<1>13. ASSUME PayCharge(s) PROVE TypeOK'
  <2>1. After(s, "charge", sess[s].booking) \in Session
    BY <1>0, AfterType DEF Session
  <2>2. [After(s, "charge", sess[s].booking) EXCEPT !.stale = sess[s].stale] \in Session
    BY <1>0, <2>1 DEF Session
  <2>3. sess' \in [Sessions -> Session]
    BY <1>13, <2>2, BecomeType DEF PayCharge
  <2>4. QED BY <1>13, <2>3, DelKeysType DEF PayCharge, TypeOK
<1>14. ASSUME PayRefused(s) PROVE TypeOK'
  BY <1>14, GiveUpType DEF PayRefused
<1>15. ASSUME PayRecord(s) PROVE TypeOK'
  <2>1. sess' \in [Sessions -> Session]
    BY <1>15, IdleSessionType, BecomeType DEF PayRecord, Finish
  <2>2. payment' \in [Bookings -> PaymentStatus]
    BY <1>15 DEF PayRecord, TypeOK, PaymentStatus
  <2>3. QED BY <1>0, <1>15, <2>1, <2>2 DEF PayRecord, TypeOK
<1>16. ASSUME PayConflict(s) PROVE TypeOK'
  BY <1>16, AbandonType DEF PayConflict
<1>17. ASSUME HookLock(s) PROVE TypeOK'
  BY <1>17, GotoType DEF HookLock
<1>18. ASSUME HookSettled(s) PROVE TypeOK'
  BY <1>18, AbandonType DEF HookSettled
<1>19. ASSUME HookBooking(s) PROVE TypeOK'
  BY <1>19, GotoType DEF HookBooking
<1>20. ASSUME HookSell(s) PROVE TypeOK'
  <2>1. sess[s].booking \in Bookings
    BY <1>20 DEF HookSell, At, SessionShape, WellFormed
  <2>2. sess' \in [Sessions -> Session]
    BY <1>20, <2>1, AfterType, BecomeType DEF HookSell
  <2>3. booking' \in [Bookings -> BookingRow]
    BY <1>0, <1>20 DEF HookSell, BookingRow, BookingStatus
  <2>4. payment' \in [Bookings -> PaymentStatus]
    BY <1>20 DEF HookSell, TypeOK, PaymentStatus
  <2>5. notices' \in [Bookings -> Counts]
    BY <1>20, CountType DEF HookSell
  <2>6. booking[sess[s].booking].user \in Users
    BY <1>20, <2>1 DEF HookSell, RowsOwned, HookEntered
  <2>7. QED BY <1>20, <2>2, <2>3, <2>4, <2>5, <2>6 DEF HookSell, TypeOK
<1>21. ASSUME HookRefused(s) PROVE TypeOK'
  BY <1>21, GiveUpType DEF HookRefused
<1>22. ASSUME BreakDeadlock(s) PROVE TypeOK'
  BY <1>22, AbandonType DEF BreakDeadlock
<1>23. ASSUME JoinLock(s) \/ HookEnter(s) PROVE TypeOK'
  BY <1>23, EnterType DEF JoinLock, HookEnter
<1>24. ASSUME JoinRepeated(s) PROVE TypeOK'
  BY <1>24, AbandonType DEF JoinRepeated
<1>25. QED
  BY <1>1, <1>2, <1>3, <1>4, <1>5, <1>6, <1>7, <1>8, <1>9, <1>10, <1>11, <1>12,
     <1>13, <1>14, <1>15, <1>16, <1>17, <1>18, <1>19, <1>20, <1>21, <1>22, <1>23, <1>24
  DEF Progress

-----------------------------------------------------------------------------
(* The inductive invariant. *)

\* The PAID webhook that has locked a payment is alone on it, and the payment
\* is still PENDING.
HookOwnsPayment ==
  \A s \in Sessions :
    sess[s].op = "hook" /\ sess[s].phase \in {"booking", "expire", "enter"} =>
      /\ payment[sess[s].booking] = "PENDING"
      /\ \A t \in Sessions \ {s} :
           sess[t].op = "hook" /\ sess[t].phase \in {"booking", "expire", "enter"}
             => sess[t].booking # sess[s].booking

Tables == SoldOnce /\ OneHoldPerUser /\ NotifiedOnce

IInv ==
  /\ TypeOK
  /\ SessionShape
  /\ RowsOwned
  /\ LocksExclusive
  /\ HookOwnsPayment
  /\ HookEntered
  /\ JoinEntered
  /\ Tables

LEMMA InitIInv == Init => IInv
<1> SUFFICES ASSUME Init PROVE IInv
  OBVIOUS
<1>1. TypeOK
  <2>1. sess \in [Sessions -> Session]
    BY IdleSessionType DEF Init
  <2>2. booking \in [Bookings -> BookingRow]
    BY DEF Init, BookingRow, BookingStatus
  <2>3. QED
    BY <2>1, <2>2, EventAssumption DEF Init, TypeOK, PaymentStatus, Counts
<1>2. SessionShape
  BY DEF Init, SessionShape, WellFormed, IdleSession
<1>3. LocksExclusive
  BY DEF Init, LocksExclusive, RowLocks, IdleSession
<1>4. RowsOwned /\ HookOwnsPayment /\ HookEntered /\ JoinEntered
  BY DEF Init, RowsOwned, HookOwnsPayment, HookEntered, JoinEntered, At, IdleSession
<1>5. Tables
  BY DEF Init, Tables, SoldOnce, OneHoldPerUser, NotifiedOnce, WithStatus
<1>6. QED BY <1>1, <1>2, <1>3, <1>4, <1>5 DEF IInv

LEMMA BecomeShape ==
  ASSUME TypeOK, SessionShape, NEW s \in Sessions, NEW r, WellFormed(r), Become(s, r)
  PROVE  SessionShape'
BY DEF TypeOK, SessionShape, WellFormed, Become

LEMMA FinishShape ==
  ASSUME TypeOK, SessionShape, NEW s \in Sessions, Finish(s)
  PROVE  SessionShape'
<1>1. WellFormed(IdleSession)
  BY DEF WellFormed, IdleSession
<1>2. QED BY <1>1, BecomeShape DEF Finish

LEMMA StartShape ==
  ASSUME TypeOK, SessionShape, NEW s \in Sessions, Arrive(s)
  PROVE  SessionShape'
<1> DEFINE New(op, p, u, b) ==
      [IdleSession EXCEPT !.op = op, !.phase = p, !.user = u, !.booking = b, !.began = now]
<1>1. ASSUME NEW u \in Users, StartBook(s, u) \/ StartJoin(s, u) PROVE SessionShape'
  <2>1. /\ WellFormed(New("book", "expire", u, NoBooking))
        /\ WellFormed(New("join", "expire", u, NoBooking))
    BY DEF WellFormed, IdleSession
  <2>2. QED BY <1>1, <2>1, BecomeShape DEF StartBook, StartJoin, Start
<1>2. ASSUME NEW u \in Users \cup {NoUser}, StartList(s, u) PROVE SessionShape'
  <2>1. WellFormed(New("list", "expire", u, NoBooking))
    BY DEF WellFormed, IdleSession
  <2>2. QED BY <1>2, <2>1, BecomeShape DEF StartList, Start
<1>3. ASSUME NEW b \in Bookings, StartCancel(s, b) \/ StartPay(s, b) \/ StartHook(s, b)
      PROVE SessionShape'
  <2>1. /\ WellFormed(New("cancel", "expire", NoUser, b))
        /\ WellFormed(New("pay", "lock", NoUser, b))
        /\ WellFormed(New("hook", "lock", NoUser, b))
    BY DEF WellFormed, IdleSession
  <2>2. QED BY <1>3, <2>1, BecomeShape DEF StartCancel, StartPay, StartHook, Start
<1>4. QED BY <1>1, <1>2, <1>3 DEF Arrive

LEMMA ProgressShape ==
  ASSUME TypeOK, SessionShape, NEW s \in Sessions, Progress(s)
  PROVE  SessionShape'
<1>0. WellFormed(sess[s]) /\ sess[s] \in Session
  BY DEF SessionShape, TypeOK
<1>1. ASSUME NEW b \in Bookings, ExpireRow(s, b) PROVE SessionShape'
  <2>1. WellFormed([sess[s] EXCEPT !.stale = @ \cup {b}])
    BY <1>0, <1>1 DEF WellFormed, ExpireRow, Session
  <2>2. QED BY <1>1, <2>1, BecomeShape DEF ExpireRow
<1>2. ASSUME NEW b \in Bookings, Book(s, b) PROVE SessionShape'
  <2>1. WellFormed(After(s, "redis", b))
    BY DEF WellFormed, After, IdleSession
  <2>2. QED BY <1>2, <2>1, BecomeShape DEF Book
<1>3. CASE CommitExpiry(s)
  <2>1. CASE sess[s].op = "list"
    BY <1>3, <2>1, FinishShape DEF CommitExpiry
  <2>2. CASE sess[s].op # "list"
    <3>1. WellFormed(After(s, "body", sess[s].booking))
      BY <1>0, <1>3, <2>2 DEF WellFormed, After, IdleSession, CommitExpiry
    <3>2. QED BY <1>3, <2>2, <3>1, BecomeShape DEF CommitExpiry
  <2>3. QED BY <2>1, <2>2
<1>4. CASE Cancel(s)
  <2>1. WellFormed([sess[s] EXCEPT !.phase = "redis"])
    BY <1>0, <1>4 DEF WellFormed, Cancel, At, Session
  <2>2. QED BY <1>4, <2>1, BecomeShape DEF Cancel
<1>5. CASE PayCharge(s)
  <2>1. WellFormed([After(s, "charge", sess[s].booking) EXCEPT !.stale = sess[s].stale])
    BY <1>0, <1>5 DEF WellFormed, After, IdleSession, PayCharge
  <2>2. QED BY <1>5, <2>1, BecomeShape DEF PayCharge
<1>6. CASE HookSell(s)
  <2>1. WellFormed(After(s, "redis", sess[s].booking))
    BY <1>0, <1>6 DEF WellFormed, After, IdleSession, HookSell, At
  <2>2. QED BY <1>6, <2>1, BecomeShape DEF HookSell
<1>7. CASE PayLock(s) \/ HookLock(s) \/ HookBooking(s)
  <2>1. /\ PayLock(s) \/ HookBooking(s) => WellFormed([sess[s] EXCEPT !.phase = "expire"])
        /\ HookLock(s) => WellFormed([sess[s] EXCEPT !.phase = "booking"])
    BY <1>0 DEF WellFormed, PayLock, HookLock, HookBooking, At, Session
  <2>2. QED BY <1>7, <2>1, BecomeShape DEF PayLock, HookLock, HookBooking, Goto
<1>8. CASE JoinLock(s) \/ HookEnter(s)
  <2>1. WellFormed([sess[s] EXCEPT !.phase = "enter"])
    BY <1>0, <1>8 DEF WellFormed, JoinLock, HookEnter, Swept, Session
  <2>2. QED BY <1>8, <2>1, BecomeShape DEF JoinLock, HookEnter, Enter
<1>9. CASE Finish(s)
  BY <1>9, FinishShape
<1>10. QED
  BY <1>1, <1>2, <1>3, <1>4, <1>5, <1>6, <1>7, <1>8, <1>9
  DEF Progress, BookRefused, SetKey, SetKeyFails, Join, JoinRepeated, JoinRefused,
      CancelRefused, DelKey, PayRefused, PayRecord, PayConflict, HookSettled, HookRefused,
      BreakDeadlock, GiveUp, Abandon

\* The steps that are not a request's: the organizer's, the provider's failure
\* report, Redis's and the clock's.
Other ==
  \/ \E b \in Bookings, st \in {"FAILED", "CANCELLED"} : MarkNonPaid(b, st)
  \/ Organizer
  \/ \E b \in Bookings : KeyExpires(b)
  \/ Tick

LEMMA OtherType ==
  ASSUME TypeOK, Other
  PROVE  TypeOK'
<1>1. ASSUME NEW b \in Bookings, NEW st \in {"FAILED", "CANCELLED"}, MarkNonPaid(b, st)
      PROVE TypeOK'
  BY <1>1 DEF MarkNonPaid, TypeOK, PaymentStatus
<1>2. ASSUME NEW e \in Edits, EditEvent(e) PROVE TypeOK'
  BY <1>2 DEF EditEvent, TypeOK
<1>3. CASE WriteEdit
  BY <1>3, EventAssumption DEF WriteEdit, TypeOK
<1>4. CASE CancelEvent
  BY <1>4 DEF CancelEvent, TypeOK, EventRow
<1>5. ASSUME NEW b \in Bookings, KeyExpires(b) PROVE TypeOK'
  BY <1>5 DEF KeyExpires, TypeOK
<1>6. CASE Tick
  BY <1>6 DEF Tick, TypeOK
<1>7. QED BY <1>1, <1>2, <1>3, <1>4, <1>5, <1>6 DEF Other, Organizer

LEMMA OtherUnchanged ==
  ASSUME Other
  PROVE  UNCHANGED <<booking, participants, notices, sess>>
BY DEF Other, MarkNonPaid, Organizer, EditEvent, WriteEdit, CancelEvent, KeyExpires, Tick

-----------------------------------------------------------------------------
(* What a step does to the bookings. *)

\* A row as a session's expiry leaves it.
LEMMA ExpiredRow ==
  ASSUME TypeOK, LocksExclusive, NEW s \in Sessions, NEW b \in Bookings
  PROVE  /\ b \notin sess[s].stale => AfterExpiry(s)[b] = booking[b]
         /\ b \in sess[s].stale =>
              /\ booking[b].status = "RESERVED"
              /\ AfterExpiry(s)[b].status = "EXPIRED"
         /\ AfterExpiry(s)[b].user = booking[b].user
         /\ AfterExpiry(s)[b].expires = booking[b].expires
BY DEF TypeOK, LocksExclusive, AfterExpiry, BookingRow

\* What a session's step does to one row, beside leaving it alone: expire it,
\* create it, cancel it or complete it.
Expires(s, b) ==
  /\ b \in sess[s].stale /\ booking[b].status = "RESERVED"
  /\ booking'[b] = [booking[b] EXCEPT !.status = "EXPIRED"]
Cancels(s, b) ==
  /\ b = sess[s].booking /\ (Cancel(s) \/ SetKeyFails(s))
  /\ booking[b].status = "RESERVED"
  /\ booking'[b] = [booking[b] EXCEPT !.status = "CANCELLED"]
Completes(s, b) ==
  /\ b = sess[s].booking /\ HookSell(s) /\ b \notin sess[s].stale
  /\ booking[b].status = "RESERVED"
  /\ booking'[b] = [booking[b] EXCEPT !.status = "COMPLETED"]

LEMMA RowSteps ==
  ASSUME TypeOK, LocksExclusive, SessionShape, HookEntered, NEW s \in Sessions, Progress(s),
         NEW b \in Bookings
  PROVE  \/ booking'[b] = booking[b]
         \/ Expires(s, b) \/ Book(s, b) \/ Cancels(s, b) \/ Completes(s, b)
<1> DEFINE Goal == \/ booking'[b] = booking[b]
                   \/ Expires(s, b) \/ Book(s, b) \/ Cancels(s, b) \/ Completes(s, b)
<1>0. AfterExpiry(s)[b] # booking[b] =>
        /\ b \in sess[s].stale /\ booking[b].status = "RESERVED"
        /\ AfterExpiry(s)[b] = [booking[b] EXCEPT !.status = "EXPIRED"]
  BY DEF TypeOK, LocksExclusive, AfterExpiry
<1>1. CASE booking' = AfterExpiry(s)
  BY <1>0, <1>1 DEF Expires
<1>2. ASSUME NEW c \in Bookings, Book(s, c) PROVE Goal
  <2>1. CASE b = c
    BY <1>2, <2>1
  <2>2. CASE b # c
    <3>1. booking'[b] = AfterExpiry(s)[b]
      BY <1>2, <2>2 DEF Book, AfterExpiry
    <3>2. QED BY <1>0, <3>1 DEF Expires
  <2>3. QED BY <2>1, <2>2
<1>3. CASE Cancel(s)
  BY <1>3 DEF Cancel, Cancels, TypeOK
<1>4. CASE SetKeyFails(s)
  BY <1>4 DEF SetKeyFails, Cancels, TypeOK
<1>5. CASE HookSell(s)
  <2>1. CASE b = sess[s].booking
    <3>1. booking[b].status = "RESERVED" /\ b \notin sess[s].stale
      BY <1>5, <2>1 DEF HookSell, HookEntered
    <3>2. AfterExpiry(s)[b] = booking[b]
      BY <3>1, ExpiredRow
    <3>3. booking'[b] = [booking[b] EXCEPT !.status = "COMPLETED"]
      BY <1>5, <2>1, <3>2 DEF HookSell, AfterExpiry
    <3>4. QED BY <1>5, <2>1, <3>1, <3>2, <3>3 DEF Completes
  <2>2. CASE b # sess[s].booking
    <3>1. booking'[b] = AfterExpiry(s)[b]
      BY <1>5, <2>2 DEF HookSell, AfterExpiry
    <3>2. QED BY <1>0, <3>1 DEF Expires
  <2>3. QED BY <2>1, <2>2
<1>6. CASE UNCHANGED booking
  BY <1>6
<1>7. QED
  BY <1>1, <1>2, <1>3, <1>4, <1>5, <1>6
  DEF Progress, ExpireRow, CommitExpiry, BookRefused, SetKey, Join, JoinLock, JoinRepeated, JoinRefused, HookEnter, Enter,
      CancelRefused, DelKey, PayLock, PayCharge, PayRefused, PayRecord, PayConflict,
      HookLock, HookSettled, HookBooking, HookRefused, BreakDeadlock, GiveUp, Abandon, Goto

\* A step of s leaves alone the RESERVED rows other sessions have locked.
LEMMA OthersRows ==
  ASSUME TypeOK, LocksExclusive, SessionShape, HookEntered, NEW s \in Sessions, Progress(s),
         NEW t \in Sessions \ {s}, NEW b \in RowLocks(t) \cap Bookings,
         booking[b].status = "RESERVED"
  PROVE  booking'[b] = booking[b]
<1>2. b \notin RowLocks(s)
  BY DEF LocksExclusive
<1>3. ~Expires(s, b)
  BY <1>2 DEF Expires, RowLocks
<1>4. ~Book(s, b)
  BY DEF Book
<1>5. ~Cancels(s, b)
  BY DEF Cancels, Cancel, SetKeyFails, RowFree
<1>6. ~Completes(s, b)
  BY <1>2 DEF Completes, HookSell, At, RowLocks
<1>7. QED BY <1>3, <1>4, <1>5, <1>6, RowSteps

\* Above all those they have marked EXPIRED.
LEMMA OthersStale ==
  ASSUME TypeOK, LocksExclusive, SessionShape, HookEntered, NEW s \in Sessions, Progress(s),
         NEW t \in Sessions \ {s}, NEW b \in sess[t].stale
  PROVE  booking'[b] = booking[b]
<1>1. b \in Bookings /\ booking[b].status = "RESERVED" /\ b \in RowLocks(t)
  BY DEF TypeOK, Session, LocksExclusive, RowLocks
<1>2. QED BY <1>1, OthersRows

\* The RESERVED rows, and those a session's expiry leaves.
HeldNow == WithStatus("RESERVED")

LEMMA HeldFinite ==
  ASSUME TypeOK, NEW s \in Sessions
  PROVE  /\ IsFiniteSet(Held(s)) /\ Cardinality(Held(s)) \in Nat
         /\ IsFiniteSet(participants) /\ Cardinality(participants) \in Nat
<1>1. Held(s) \subseteq Bookings /\ participants \subseteq Users
  BY DEF Held, TypeOK
<1>2. QED BY <1>1, SetsAssumption, FS_Subset, FS_CardinalityType

LEMMA HeldLeft ==
  ASSUME TypeOK, LocksExclusive, NEW s \in Sessions
  PROVE  /\ Held(s) = HeldNow \ sess[s].stale
         /\ sess[s].stale \subseteq HeldNow
<1>1. sess[s].stale \subseteq HeldNow
  BY DEF LocksExclusive, HeldNow, WithStatus, TypeOK, Session
<1>2. Held(s) = HeldNow \ sess[s].stale
  BY ExpiredRow DEF Held, HeldNow, WithStatus
<1>3. QED BY <1>1, <1>2

-----------------------------------------------------------------------------
(* Locks. *)

\* A request's step changes no other request.
LEMMA OtherSessions ==
  ASSUME TypeOK, NEW s \in Sessions, Progress(s), NEW t \in Sessions \ {s}
  PROVE  sess'[t] = sess[t]
BY DEF TypeOK, Progress, Become, Finish, ExpireRow, Book, CommitExpiry, BookRefused, SetKey,
      SetKeyFails, Join, JoinLock, JoinRepeated, JoinRefused, HookEnter, Enter, Cancel, CancelRefused, DelKey, PayLock, PayCharge,
      PayRefused, PayRecord, PayConflict, HookLock, HookSettled, HookBooking, HookSell,
      HookRefused, BreakDeadlock, GiveUp, Abandon, Goto

\* It takes only free locks, and marks only RESERVED rows.
LEMMA LockSteps ==
  ASSUME TypeOK, SessionShape, NEW s \in Sessions, Progress(s)
  PROVE  /\ \A b \in RowLocks(s)' \ RowLocks(s) : RowFree(s, b)
         /\ \A b \in sess'[s].stale :
              /\ booking'[b] = booking[b]
              /\ b \notin sess[s].stale => booking[b].status = "RESERVED"
<1> DEFINE Goal == /\ \A b \in RowLocks(s)' \ RowLocks(s) : RowFree(s, b)
                   /\ \A b \in sess'[s].stale :
                        /\ booking'[b] = booking[b]
                        /\ b \notin sess[s].stale => booking[b].status = "RESERVED"
<1>0. sess \in [Sessions -> Session] /\ WellFormed(sess[s])
  BY DEF TypeOK, SessionShape
<1>2. ASSUME NEW b \in Bookings, ExpireRow(s, b) PROVE Goal
  <2>1. sess'[s] = [sess[s] EXCEPT !.stale = @ \cup {b}] /\ booking' = booking
    BY <1>0, <1>2 DEF ExpireRow, Become
  <2>2. /\ sess'[s].op = sess[s].op /\ sess'[s].phase = sess[s].phase
        /\ sess'[s].booking = sess[s].booking /\ sess'[s].stale = sess[s].stale \cup {b}
    BY <1>0, <2>1 DEF Session
  <2>3. RowLocks(s)' = RowLocks(s) \cup {b}
    BY <2>2 DEF RowLocks
  <2>4. RowFree(s, b) /\ booking[b].status = "RESERVED"
    BY <1>2 DEF ExpireRow, Targets
  <2>5. QED BY <2>1, <2>2, <2>3, <2>4
<1>3. CASE PayLock(s) \/ HookBooking(s)
  <2>1. /\ sess'[s] = [sess[s] EXCEPT !.phase = "expire"]
        /\ RowFree(s, sess[s].booking) /\ booking' = booking
        /\ sess[s].phase \in {"lock", "booking"}
    BY <1>0, <1>3 DEF PayLock, HookBooking, At, Goto, Become
  <2>2. sess'[s].stale = {} /\ sess'[s].booking = sess[s].booking
    BY <1>0, <2>1 DEF Session, WellFormed
  <2>3. RowLocks(s)' \subseteq {sess[s].booking}
    BY <2>2 DEF RowLocks
  <2>4. QED BY <2>1, <2>2, <2>3
<1>4. CASE HookLock(s)
  <2>1. sess'[s] = [sess[s] EXCEPT !.phase = "booking"] /\ sess[s].phase = "lock"
    BY <1>0, <1>4 DEF HookLock, At, Goto, Become
  <2>2. sess'[s].stale = {} /\ sess'[s].phase = "booking"
    BY <1>0, <2>1 DEF Session, WellFormed
  <2>3. QED BY <2>2 DEF RowLocks
<1>5. CASE PayCharge(s)
  <2>1. /\ sess'[s] = [After(s, "charge", sess[s].booking) EXCEPT !.stale = sess[s].stale]
        /\ booking' = booking /\ sess[s].op = "pay" /\ sess[s].phase = "expire"
    BY <1>0, <1>5 DEF PayCharge, Become, Swept
  <2>2. /\ sess'[s].op = "pay" /\ sess'[s].phase = "charge"
        /\ sess'[s].booking = sess[s].booking /\ sess'[s].stale = sess[s].stale
    BY <2>1 DEF After, IdleSession
  <2>3. RowLocks(s)' = RowLocks(s)
    BY <2>1, <2>2 DEF RowLocks
  <2>4. QED BY <2>1, <2>2, <2>3
<1>6. CASE Cancel(s)
  <2>1. sess'[s] = [sess[s] EXCEPT !.phase = "redis"] /\ sess[s].phase = "body"
    BY <1>0, <1>6 DEF Cancel, At, Become
  <2>2. sess'[s].stale = {} /\ sess'[s].phase = "redis"
    BY <1>0, <2>1 DEF Session, WellFormed
  <2>3. QED BY <2>2 DEF RowLocks
<1>7. ASSUME sess'[s].stale = {}, sess'[s].phase \notin {"expire", "charge", "enter"} PROVE Goal
  BY <1>7 DEF RowLocks
<1>8. ASSUME NEW b, NEW p, Become(s, After(s, p, b)), p \in {"redis", "body"} PROVE Goal
  <2>1. sess'[s] = After(s, p, b)
    BY <1>0, <1>8 DEF Become
  <2>2. sess'[s].stale = {} /\ sess'[s].phase = p
    BY <2>1 DEF After, IdleSession
  <2>3. QED BY <1>7, <1>8, <2>2
<1>9. CASE Finish(s)
  <2>1. sess'[s] = IdleSession
    BY <1>0, <1>9 DEF Finish, Become
  <2>2. QED BY <1>7, <2>1 DEF IdleSession
<1>10. CASE JoinLock(s) \/ HookEnter(s)
  <2>1. /\ sess'[s] = [sess[s] EXCEPT !.phase = "enter"] /\ booking' = booking
        /\ sess[s].phase = "expire"
    BY <1>0, <1>10 DEF JoinLock, HookEnter, Enter, Become, Swept
  <2>2. /\ sess'[s].op = sess[s].op /\ sess'[s].phase = "enter"
        /\ sess'[s].booking = sess[s].booking /\ sess'[s].stale = sess[s].stale
    BY <1>0, <2>1 DEF Session
  <2>3. RowLocks(s)' = RowLocks(s)
    BY <2>1, <2>2 DEF RowLocks
  <2>4. QED BY <2>1, <2>2, <2>3
<1>11. Goal
  BY <1>2, <1>3, <1>4, <1>5, <1>6, <1>8, <1>9, <1>10
  DEF Progress, Book, CommitExpiry, BookRefused, SetKey, SetKeyFails, Join, JoinRepeated,
      JoinRefused, CancelRefused, DelKey, PayRefused, PayRecord, PayConflict, HookSettled,
      HookSell, HookRefused, BreakDeadlock, GiveUp, Abandon
<1>12. QED BY <1>11

\* A request that arrives or is lost locks nothing and has marked nothing.
LEMMA ArriveStep ==
  ASSUME TypeOK, NEW s \in Sessions, Arrive(s) \/ Crash(s)
  PROVE  /\ UNCHANGED <<booking, participants, payment, notices>>
         /\ \A t \in Sessions \ {s} : sess'[t] = sess[t]
         /\ sess'[s].stale = {} /\ RowLocks(s)' = {} /\ sess'[s].phase # "enter"
         /\ ~(sess'[s].op = "hook" /\ sess'[s].phase \in {"booking", "expire", "enter"})
<1>1. ASSUME NEW op, NEW p, NEW u, NEW b, Start(s, op, p, u, b),
             op \in {"pay", "hook"} => p = "lock", p # "enter"
      PROVE  /\ sess'[s].stale = {} /\ RowLocks(s)' = {} /\ sess'[s].phase # "enter"
             /\ ~(sess'[s].op = "hook" /\ sess'[s].phase \in {"booking", "expire", "enter"})
  <2>1. /\ sess'[s].op = op /\ sess'[s].phase = p /\ sess'[s].stale = {}
    BY <1>1 DEF Start, Become, IdleSession, TypeOK
  <2>2. QED BY <1>1, <2>1 DEF RowLocks
<1>2. CASE Arrive(s)
  <2>1. /\ sess'[s].stale = {} /\ RowLocks(s)' = {} /\ sess'[s].phase # "enter"
        /\ ~(sess'[s].op = "hook" /\ sess'[s].phase \in {"booking", "expire", "enter"})
    BY <1>1, <1>2 DEF Arrive, StartBook, StartJoin, StartList, StartCancel, StartPay, StartHook
  <2>2. QED
    BY <1>2, <2>1 DEF Arrive, StartBook, StartJoin, StartList, StartCancel, StartPay,
                      StartHook, Start, Become, TypeOK
<1>3. CASE Crash(s)
  <2>1. sess' = [sess EXCEPT ![s] = IdleSession]
    BY <1>3 DEF Crash, Abandon, Finish, Become
  <2>2. sess'[s] = IdleSession /\ \A t \in Sessions \ {s} : sess'[t] = sess[t]
    BY <2>1 DEF TypeOK
  <2>3. QED BY <1>3, <2>2 DEF Crash, Abandon, IdleSession, RowLocks
<1>4. QED BY <1>2, <1>3

LEMMA LocksStep ==
  ASSUME TypeOK, LocksExclusive, SessionShape, HookEntered, Next
  PROVE  LocksExclusive'
<1>1. ASSUME NEW s \in Sessions, \A t \in Sessions \ {s} : sess'[t] = sess[t],
             \A b \in RowLocks(s)' \ RowLocks(s) : RowFree(s, b),
             \A t \in Sessions : \A b \in sess'[t].stale : booking'[b].status = "RESERVED"
      PROVE  LocksExclusive'
  <2>1. \A t \in Sessions \ {s} : RowLocks(t)' = RowLocks(t)
    BY <1>1 DEF RowLocks
  <2>2. ASSUME NEW t \in Sessions \ {s} PROVE RowLocks(s)' \cap RowLocks(t)' = {}
    BY <1>1, <2>1 DEF LocksExclusive, RowFree
  <2>3. ASSUME NEW t \in Sessions, NEW u \in Sessions, t # u
        PROVE RowLocks(t)' \cap RowLocks(u)' = {}
    BY <2>1, <2>2, <2>3 DEF LocksExclusive
  <2>4. QED BY <1>1, <2>3 DEF LocksExclusive
<1>2. ASSUME NEW s \in Sessions, Progress(s) PROVE LocksExclusive'
  <2>1. \A t \in Sessions \ {s} : sess'[t] = sess[t]
    BY <1>2, OtherSessions
  <2>2. \A b \in RowLocks(s)' \ RowLocks(s) : RowFree(s, b)
    BY <1>2, LockSteps
  <2>3. ASSUME NEW b \in sess'[s].stale PROVE booking'[b].status = "RESERVED"
    BY <1>2, LockSteps DEF LocksExclusive
  <2>4. ASSUME NEW t \in Sessions \ {s}, NEW b \in sess'[t].stale
        PROVE booking'[b].status = "RESERVED"
    BY <1>2, <2>1, OthersStale DEF LocksExclusive
  <2>5. QED BY <1>1, <2>1, <2>2, <2>3, <2>4
<1>3. ASSUME NEW s \in Sessions, Arrive(s) \/ Crash(s) PROVE LocksExclusive'
  BY <1>1, <1>3, ArriveStep DEF LocksExclusive
<1>4. CASE Other
  BY <1>4, OtherUnchanged DEF LocksExclusive, RowLocks
<1>5. QED BY <1>2, <1>3, <1>4 DEF Next, Other

-----------------------------------------------------------------------------
(* The payment a webhook owns. *)

HookOwns(s) == sess[s].op = "hook" /\ sess[s].phase \in {"booking", "expire", "enter"}

LEMMA HookSteps ==
  ASSUME TypeOK, SessionShape, NEW s \in Sessions, Progress(s), HookOwns(s)'
  PROVE  /\ sess'[s].booking = sess[s].booking /\ payment' = payment
         /\ HookOwns(s) \/ (HookLock(s) /\ payment[sess[s].booking] = "PENDING")
<1> USE DEF HookOwns
<1>0. sess \in [Sessions -> Session]
  BY DEF TypeOK
<1>1. CASE HookLock(s) \/ HookBooking(s)
  BY <1>0, <1>1 DEF HookLock, HookBooking, Goto, Become, Session, At
<1>2. ASSUME NEW b \in Bookings, ExpireRow(s, b) PROVE
         sess'[s].booking = sess[s].booking /\ payment' = payment /\ HookOwns(s)
  BY <1>0, <1>2 DEF ExpireRow, Become, Session
<1>3. ~Finish(s)
  BY <1>0 DEF Finish, Become, IdleSession
<1>4. ~PayLock(s) /\ ~Cancel(s)
  BY <1>0 DEF PayLock, Goto, Cancel, Become, Session, At
<1>5. ASSUME NEW b, NEW p, p \in {"redis", "body"} PROVE ~Become(s, After(s, p, b))
  <2>1. After(s, p, b).phase = p
    BY DEF After, IdleSession
  <2>2. QED BY <1>0, <1>5, <2>1 DEF Become
<1>6. ~PayCharge(s)
  <2>1. [After(s, "charge", sess[s].booking) EXCEPT !.stale = sess[s].stale].phase = "charge"
    BY DEF After, IdleSession
  <2>2. QED BY <1>0, <2>1 DEF PayCharge, Become
<1>7. CASE JoinLock(s) \/ HookEnter(s)
  BY <1>0, <1>7 DEF JoinLock, HookEnter, Enter, Swept, Become, Session
<1>8. QED
  BY <1>1, <1>2, <1>3, <1>4, <1>5, <1>6, <1>7
  DEF Progress, Book, CommitExpiry, BookRefused, SetKey, SetKeyFails, Join, JoinRepeated,
      JoinRefused, CancelRefused, DelKey, PayRefused, PayRecord, PayConflict, HookSettled,
      HookSell, HookRefused, BreakDeadlock, GiveUp, Abandon

LEMMA PaymentSteps ==
  ASSUME TypeOK, NEW s \in Sessions, Progress(s), NEW b \in Bookings
  PROVE  \/ payment'[b] = payment[b]
         \/ /\ PayRecord(s) /\ b = sess[s].booking
            /\ payment[b] = "NONE" /\ payment'[b] = "PENDING"
         \/ /\ HookSell(s) /\ b = sess[s].booking
            /\ payment'[b] = "PAID"
BY DEF TypeOK, Progress, ExpireRow, Book, CommitExpiry, BookRefused, SetKey,
      SetKeyFails, Join, JoinLock, JoinRepeated, JoinRefused, HookEnter, Enter, Cancel, CancelRefused, DelKey, PayLock, PayCharge,
      PayRefused, PayRecord, PayConflict, HookLock, HookSettled, HookBooking, HookSell,
      HookRefused, BreakDeadlock, GiveUp, Abandon, Goto

LEMMA HookStep ==
  ASSUME TypeOK, SessionShape, HookOwnsPayment, Next
  PROVE  HookOwnsPayment'
<1> USE DEF HookOwns
<1>1. ASSUME NEW s \in Sessions, Progress(s) PROVE HookOwnsPayment'
  <2>0. \A t \in Sessions \ {s} : sess'[t] = sess[t]
    BY <1>1, OtherSessions
  <2>1. ASSUME NEW t \in Sessions, HookOwns(t)'
        PROVE payment'[sess'[t].booking] = "PENDING"
    <3>1. CASE t = s
      BY <1>1, <2>1, <3>1, HookSteps DEF HookOwnsPayment
    <3>2. CASE t # s
      <4>1. HookOwns(t) /\ sess'[t] = sess[t]
        BY <2>0, <2>1, <3>2
      <4>2. sess[t].booking \in Bookings /\ payment[sess[t].booking] = "PENDING"
        BY <4>1 DEF SessionShape, WellFormed, HookOwnsPayment
      <4>3. ASSUME HookSell(s) PROVE sess[t].booking # sess[s].booking
        BY <3>2, <4>1, <4>3 DEF HookSell, At, HookOwnsPayment
      <4>4. QED BY <1>1, <4>1, <4>2, <4>3, PaymentSteps
    <3>3. QED BY <3>1, <3>2
  <2>2. ASSUME NEW t \in Sessions \ {s}, HookOwns(s)', HookOwns(t)'
        PROVE sess'[t].booking # sess'[s].booking
    <3>1. sess'[t] = sess[t] /\ HookOwns(t)
      BY <2>0, <2>2
    <3>2. sess'[s].booking = sess[s].booking /\ (HookOwns(s) \/ HookLock(s))
      BY <1>1, <2>2, HookSteps
    <3>3. CASE HookOwns(s)
      BY <3>1, <3>2, <3>3 DEF HookOwnsPayment
    <3>4. CASE HookLock(s)
      BY <3>1, <3>2, <3>4 DEF HookLock, PaymentFree
    <3>5. QED BY <3>2, <3>3, <3>4
  <2>3. ASSUME NEW t \in Sessions, NEW u \in Sessions \ {t}, HookOwns(t)', HookOwns(u)'
        PROVE sess'[u].booking # sess'[t].booking
    BY <2>0, <2>2, <2>3 DEF HookOwnsPayment
  <2>4. QED BY <2>1, <2>3 DEF HookOwnsPayment
<1>2. ASSUME NEW s \in Sessions, Arrive(s) \/ Crash(s) PROVE HookOwnsPayment'
  BY <1>2, ArriveStep DEF HookOwnsPayment
<1>3. CASE Other
  <2>1. UNCHANGED payment \/ \E b \in Bookings :
          /\ PaymentFree(b)
          /\ \A c \in Bookings \ {b} : payment'[c] = payment[c]
    BY <1>3 DEF Other, MarkNonPaid, Organizer, EditEvent, WriteEdit, CancelEvent, KeyExpires,
                Tick, TypeOK
  <2>2. ASSUME NEW t \in Sessions, HookOwns(t)
        PROVE payment'[sess[t].booking] = payment[sess[t].booking]
    BY <2>1, <2>2 DEF PaymentFree, SessionShape, WellFormed
  <2>3. QED BY <1>3, <2>2, OtherUnchanged DEF HookOwnsPayment
<1>4. QED BY <1>1, <1>2, <1>3 DEF Next, Other

-----------------------------------------------------------------------------
(* The tables. *)

LEMMA Sale ==
  ASSUME IInv, NEW s \in Sessions, HookSell(s), NEW b \in Bookings, b = sess[s].booking
  PROVE  /\ booking[b].status = "RESERVED" /\ payment[b] = "PENDING"
         /\ booking'[b].status = "COMPLETED" /\ payment'[b] = "PAID"
         /\ booking'[b].user = booking[b].user
         /\ booking[b].user \in Users \ participants
         /\ participants' = participants \cup {booking[b].user}
<1> USE DEF IInv
<1>1. /\ booking[b].status = "RESERVED" /\ b \notin sess[s].stale
      /\ booking[b].user \notin participants
  BY DEF HookSell, HookEntered
<1>2. AfterExpiry(s)[b] = booking[b]
  BY <1>1, ExpiredRow
<1>3. booking'[b] = [booking[b] EXCEPT !.status = "COMPLETED"]
  BY <1>2 DEF HookSell, AfterExpiry
<1>4. payment[b] = "PENDING"
  BY DEF HookOwnsPayment, HookSell, At
<1>5. booking[b].user \in Users
  BY <1>1 DEF RowsOwned
<1>6. payment'[b] = "PAID"
  BY DEF HookSell, TypeOK
<1>7. QED BY <1>1, <1>2, <1>3, <1>4, <1>5, <1>6 DEF HookSell, TypeOK, BookingRow

LEMMA Creation ==
  ASSUME TypeOK, SessionShape, NEW s \in Sessions, NEW b \in Bookings, Book(s, b)
  PROVE  /\ booking[b].status = "NONE" /\ booking'[b].status = "RESERVED"
         /\ booking'[b].user = sess[s].user /\ sess[s].user \in Users
         /\ participants' = participants /\ notices' = notices /\ payment' = payment
         /\ \A c \in Bookings \ {b} : booking'[c] = AfterExpiry(s)[c]
BY DEF TypeOK, SessionShape, WellFormed, Book, Swept, AfterExpiry

\* Rows and people a request's step leaves as they were.
LEMMA Participants ==
  ASSUME TypeOK, NEW s \in Sessions, Progress(s)
  PROVE  participants \subseteq participants'
BY DEF TypeOK, Progress, ExpireRow, Book, CommitExpiry, BookRefused, SetKey,
      SetKeyFails, Join, JoinLock, JoinRepeated, JoinRefused, HookEnter, Enter, Cancel, CancelRefused, DelKey, PayLock, PayCharge,
      PayRefused, PayRecord, PayConflict, HookLock, HookSettled, HookBooking, HookSell,
      HookRefused, BreakDeadlock, GiveUp, Abandon, Goto

LEMMA NoticeSteps ==
  ASSUME TypeOK, NEW s \in Sessions, Progress(s), NEW b \in Bookings
  PROVE  \/ notices'[b] = notices[b]
         \/ /\ Cancel(s) /\ b = sess[s].booking
            /\ notices'[b].cancelled = notices[b].cancelled + 1
            /\ notices'[b].confirmed = notices[b].confirmed
         \/ /\ HookSell(s) /\ b = sess[s].booking
            /\ notices'[b].confirmed = notices[b].confirmed + 1
            /\ notices'[b].cancelled = notices[b].cancelled
<1>1. CASE UNCHANGED notices
  BY <1>1
<1>2. CASE Cancel(s)
  BY <1>2 DEF Cancel, TypeOK, Counts
<1>3. CASE HookSell(s)
  BY <1>3 DEF HookSell, TypeOK, Counts
<1>4. QED
  BY <1>1, <1>2, <1>3
  DEF Progress, ExpireRow, Book, CommitExpiry, BookRefused, SetKey, SetKeyFails, Join,
      JoinLock, JoinRepeated, JoinRefused, HookEnter, Enter, CancelRefused, DelKey, PayLock, PayCharge, PayRefused, PayRecord,
      PayConflict, HookLock, HookSettled, HookBooking, HookRefused, BreakDeadlock,
      GiveUp, Abandon, Goto

\* How one row may change, in terms of the tables only.
LEMMA RowChange ==
  ASSUME IInv, NEW s \in Sessions, Progress(s), NEW b \in Bookings
  PROVE  \/ booking'[b] = booking[b]
         \/ /\ booking[b].status = "RESERVED"
            /\ booking'[b].status \in {"EXPIRED", "CANCELLED"}
            /\ booking'[b].user = booking[b].user
            /\ ~(HookSell(s) /\ b = sess[s].booking)
         \/ Book(s, b)
         \/ HookSell(s) /\ b = sess[s].booking
<1> USE DEF IInv
<1>1. CASE Expires(s, b)
  <2>1. ~(HookSell(s) /\ b = sess[s].booking)
    BY <1>1, Sale DEF Expires, TypeOK, BookingRow
  <2>2. QED BY <1>1, <2>1 DEF Expires, TypeOK, BookingRow
<1>2. CASE Cancels(s, b)
  <2>1. ~HookSell(s)
    BY <1>2 DEF Cancels, Cancel, SetKeyFails, HookSell, Swept, At
  <2>2. QED BY <1>2, <2>1 DEF Cancels, TypeOK, BookingRow
<1>3. QED BY <1>1, <1>2, RowSteps DEF Completes

LEMMA OwnedStep ==
  ASSUME IInv, Next
  PROVE  RowsOwned'
<1>1. ASSUME NEW s \in Sessions, Progress(s), NEW b \in Bookings, booking'[b].status # "NONE"
      PROVE  booking'[b].user \in Users
  BY <1>1, RowChange, Creation, Sale DEF IInv, RowsOwned
<1>2. ASSUME NEW s \in Sessions, Arrive(s) \/ Crash(s) PROVE RowsOwned'
  BY <1>2, ArriveStep DEF IInv, RowsOwned
<1>3. CASE Other
  BY <1>3, OtherUnchanged DEF IInv, RowsOwned
<1>4. QED BY <1>1, <1>2, <1>3 DEF Next, Other, RowsOwned

LEMMA SoldOnceStep ==
  ASSUME IInv, NEW s \in Sessions, Progress(s)
  PROVE  SoldOnce'
<1> USE DEF IInv, Tables
<1>1. ASSUME NEW b \in Bookings
      PROVE payment'[b] = "PAID" <=> booking'[b].status = "COMPLETED"
  <2>1. CASE HookSell(s) /\ b = sess[s].booking
    BY <2>1, Sale
  <2>2. CASE ~(HookSell(s) /\ b = sess[s].booking)
    <3>1. payment'[b] = payment[b] \/ (payment[b] = "NONE" /\ payment'[b] = "PENDING")
      BY <2>2, PaymentSteps
    <3>2. booking'[b].status = "COMPLETED" <=> booking[b].status = "COMPLETED"
      BY <2>2, RowChange, Creation
    <3>3. QED BY <3>1, <3>2 DEF SoldOnce
  <2>3. QED BY <2>1, <2>2
<1>2. ASSUME NEW b \in Bookings, booking'[b].status = "COMPLETED",
             ~(HookSell(s) /\ b = sess[s].booking)
      PROVE booking'[b] = booking[b] /\ booking[b].user \in participants
  BY <1>2, RowChange, Creation DEF SoldOnce, WithStatus
<1>3. ASSUME NEW b \in Bookings, booking'[b].status = "COMPLETED"
      PROVE booking'[b].user \in participants'
  BY <1>2, <1>3, Sale, Participants
<1>4. ASSUME NEW b \in Bookings, NEW c \in Bookings, b # c, booking'[b].status = "COMPLETED",
             booking'[c].status = "COMPLETED"
      PROVE booking'[b].user # booking'[c].user
  <2>1. CASE HookSell(s) /\ b = sess[s].booking
    BY <1>2, <1>4, <2>1, Sale
  <2>2. CASE HookSell(s) /\ c = sess[s].booking
    BY <1>2, <1>4, <2>2, Sale
  <2>3. CASE ~(HookSell(s) /\ sess[s].booking \in {b, c})
    BY <1>2, <1>4, <2>3 DEF SoldOnce, WithStatus
  <2>4. QED BY <2>1, <2>2, <2>3
<1>5. QED BY <1>1, <1>3, <1>4 DEF SoldOnce, WithStatus

LEMMA OneHoldStep ==
  ASSUME IInv, NEW s \in Sessions, Progress(s)
  PROVE  OneHoldPerUser'
<1> USE DEF IInv, Tables
<1>1. ASSUME NEW b \in Bookings, booking'[b].status = "RESERVED", ~Book(s, b)
      PROVE booking'[b] = booking[b]
  BY <1>1, RowChange, Sale
<1>2. ASSUME NEW b \in Bookings, NEW c \in Bookings \ {b}, Book(s, b),
             booking'[c].status = "RESERVED"
      PROVE booking'[b].user # booking'[c].user
  <2>1. booking'[c] = AfterExpiry(s)[c] /\ booking'[b].user = sess[s].user
    BY <1>2, Creation
  <2>2. c \in Held(s)
    BY <1>2, <2>1 DEF Held
  <2>3. booking[c].user # sess[s].user /\ AfterExpiry(s)[c].user = booking[c].user
    BY <1>2, <2>2, ExpiredRow DEF Book, MayBook, MayOtherwiseBook
  <2>4. QED BY <2>1, <2>3
<1>3. ASSUME NEW b \in Bookings, NEW c \in Bookings, b # c,
             booking'[b].status = "RESERVED", booking'[c].status = "RESERVED"
      PROVE booking'[b].user # booking'[c].user
  BY <1>1, <1>2, <1>3 DEF OneHoldPerUser, WithStatus
<1>4. QED BY <1>3 DEF OneHoldPerUser, WithStatus

LEMMA NotifiedStep ==
  ASSUME IInv, NEW s \in Sessions, Progress(s)
  PROVE  NotifiedOnce'
<1> USE DEF IInv, Tables
<1>1. ASSUME NEW b \in Bookings
      PROVE /\ notices'[b].confirmed = IF booking'[b].status = "COMPLETED" THEN 1 ELSE 0
            /\ notices'[b].cancelled <= IF booking'[b].status = "CANCELLED" THEN 1 ELSE 0
  <2>0. notices[b].confirmed \in Nat /\ notices[b].cancelled \in Nat
    BY DEF TypeOK, Counts
  <2>1. CASE HookSell(s) /\ b = sess[s].booking
    <3>1. booking[b].status = "RESERVED" /\ booking'[b].status = "COMPLETED"
      BY <2>1, Sale
    <3>2. notices'[b].confirmed = notices[b].confirmed + 1
          /\ notices'[b].cancelled = notices[b].cancelled
      BY <2>1, <3>1 DEF HookSell, TypeOK, Counts
    <3>3. QED BY <2>0, <3>1, <3>2 DEF NotifiedOnce
  <2>2. CASE Cancel(s) /\ b = sess[s].booking
    <3>1. booking[b].status = "RESERVED" /\ booking'[b].status = "CANCELLED"
      BY <2>2 DEF Cancel, TypeOK, BookingRow
    <3>2. notices'[b].cancelled = notices[b].cancelled + 1
          /\ notices'[b].confirmed = notices[b].confirmed
      BY <2>2 DEF Cancel, TypeOK, Counts
    <3>3. QED BY <2>0, <3>1, <3>2 DEF NotifiedOnce
  <2>3. CASE ~(HookSell(s) /\ b = sess[s].booking) /\ ~(Cancel(s) /\ b = sess[s].booking)
    <3>1. notices'[b] = notices[b]
      BY <2>3, NoticeSteps
    <3>2. \/ booking'[b] = booking[b]
          \/ /\ booking[b].status \in {"RESERVED", "NONE"}
             /\ booking'[b].status \in {"EXPIRED", "CANCELLED", "RESERVED"}
      BY <2>3, RowChange, Creation
    <3>3. QED BY <2>0, <3>1, <3>2 DEF NotifiedOnce
  <2>4. QED BY <2>1, <2>2, <2>3
<1>2. QED BY <1>1 DEF NotifiedOnce

LEMMA TablesStep ==
  ASSUME IInv, Next
  PROVE  Tables'
<1>1. ASSUME NEW s \in Sessions, Progress(s) PROVE Tables'
  BY <1>1, SoldOnceStep, OneHoldStep, NotifiedStep DEF Tables
<1>2. ASSUME NEW s \in Sessions, Arrive(s) \/ Crash(s) PROVE Tables'
  <2>1. UNCHANGED <<booking, participants, payment, notices>>
    BY <1>2, ArriveStep DEF IInv, Arrive, Crash, StartBook, StartJoin, StartList, StartCancel,
                            StartPay, StartHook, Start, Abandon
  <2>2. QED BY <2>1 DEF IInv, Tables, SoldOnce, OneHoldPerUser, NotifiedOnce, WithStatus
<1>3. CASE Other
  <2>1. \A b \in Bookings : payment'[b] = "PAID" <=> payment[b] = "PAID"
    BY <1>3 DEF Other, MarkNonPaid, Organizer, EditEvent, WriteEdit, CancelEvent, KeyExpires,
                Tick, IInv, TypeOK
  <2>2. QED
    BY <1>3, <2>1, OtherUnchanged
    DEF IInv, Tables, SoldOnce, OneHoldPerUser, NotifiedOnce, WithStatus
<1>4. QED BY <1>1, <1>2, <1>3 DEF Next, Other

-----------------------------------------------------------------------------
(* The inserts of participants. *)

\* Who comes to its insert comes from its expiry.
LEMMA EnterSteps ==
  ASSUME TypeOK, NEW s \in Sessions, Progress(s), sess'[s].phase = "enter"
  PROVE  /\ JoinLock(s) \/ HookEnter(s)
         /\ sess'[s].op = sess[s].op /\ sess'[s].user = sess[s].user
         /\ sess'[s].booking = sess[s].booking /\ sess'[s].stale = sess[s].stale
         /\ sess'[s].began = sess[s].began
<1>0. sess \in [Sessions -> Session]
  BY DEF TypeOK
<1>1. ~Finish(s)
  BY <1>0 DEF Finish, Become, IdleSession
<1>2. ASSUME NEW b, NEW p, Become(s, After(s, p, b)), p \in {"redis", "body"} PROVE FALSE
  BY <1>0, <1>2 DEF Become, After, IdleSession
<1>3. ~PayCharge(s)
  <2>1. [After(s, "charge", sess[s].booking) EXCEPT !.stale = sess[s].stale].phase = "charge"
    BY DEF After, IdleSession
  <2>2. QED BY <1>0, <2>1 DEF PayCharge, Become
<1>4. ~PayLock(s) /\ ~HookLock(s) /\ ~HookBooking(s) /\ ~Cancel(s)
  BY <1>0 DEF PayLock, HookLock, HookBooking, Goto, Cancel, Become, Session
<1>5. ~(\E b \in Bookings : ExpireRow(s, b))
  BY <1>0 DEF ExpireRow, Become, Session
<1>6. JoinLock(s) \/ HookEnter(s)
  BY <1>1, <1>2, <1>3, <1>4, <1>5
  DEF Progress, Book, CommitExpiry, BookRefused, SetKey, SetKeyFails, Join, JoinRepeated,
      JoinRefused, CancelRefused, DelKey, PayRefused, PayRecord, PayConflict, HookSettled,
      HookSell, HookRefused, BreakDeadlock, GiveUp, Abandon
<1>7. QED BY <1>0, <1>6 DEF JoinLock, HookEnter, Enter, Become, Session

\* Whom a step registers.
LEMMA Registers ==
  ASSUME TypeOK, NEW s \in Sessions, Progress(s)
  PROVE  \/ participants' = participants
         \/ Join(s) /\ participants' = participants \cup {sess[s].user}
         \/ HookSell(s) /\ participants' = participants \cup {booking[sess[s].booking].user}
BY DEF TypeOK, Progress, ExpireRow, Book, CommitExpiry, BookRefused, SetKey,
      SetKeyFails, Join, JoinLock, JoinRepeated, JoinRefused, HookEnter, Enter, Cancel,
      CancelRefused, DelKey, PayLock, PayCharge, PayRefused, PayRecord, PayConflict,
      HookLock, HookSettled, HookBooking, HookSell, HookRefused, BreakDeadlock, GiveUp,
      Abandon, Goto

\* The booking of a webhook that waits for the event is RESERVED, its row is locked, and
\* nobody else changes it.
LEMMA HookRow ==
  ASSUME IInv, NEW t \in Sessions, At(t, "hook", "enter")
  PROVE  /\ sess[t].booking \in Bookings \cap RowLocks(t)
         /\ booking[sess[t].booking].status = "RESERVED"
         /\ \A s \in Sessions \ {t} : Progress(s) =>
              booking'[sess[t].booking] = booking[sess[t].booking]
<1>1. /\ sess[t].booking \in Bookings \cap RowLocks(t)
      /\ booking[sess[t].booking].status = "RESERVED"
  BY DEF IInv, At, SessionShape, WellFormed, RowLocks, HookEntered
<1>2. QED BY <1>1, OthersRows DEF IInv

LEMMA HookEnteredStep ==
  ASSUME IInv, Next
  PROVE  HookEntered'
<1> DEFINE Fine(t) == /\ booking[sess[t].booking].status = "RESERVED"
                      /\ sess[t].booking \notin sess[t].stale
                      /\ booking[sess[t].booking].user \notin participants
<1>1. ASSUME NEW s \in Sessions, Progress(s), NEW t \in Sessions \ {s}, At(t, "hook", "enter"),
             sess'[t] = sess[t]
      PROVE  Fine(t)'
  <2> DEFINE b == sess[t].booking
  <2>1. Fine(t) /\ booking'[b] = booking[b] /\ b \in Bookings \cap RowLocks(t)
    BY <1>1, HookRow DEF IInv, HookEntered
  <2>2. ASSUME Join(s) PROVE sess[s].user # booking[b].user
    BY <1>1, <2>2 DEF Join, EntryFree, HasEntry
  <2>3. ASSUME HookSell(s) PROVE booking[sess[s].booking].user # booking[b].user
    <3>1. At(s, "hook", "enter")
      BY <2>3 DEF HookSell
    <3>2. sess[s].booking \in Bookings \cap RowLocks(s) /\ booking[sess[s].booking].status = "RESERVED"
      BY <3>1, HookRow
    <3>3. sess[s].booking # b
      BY <1>1, <2>1, <3>2 DEF IInv, LocksExclusive
    <3>4. QED BY <2>1, <3>2, <3>3 DEF IInv, Tables, OneHoldPerUser, WithStatus
  <2>4. booking[b].user \notin participants'
    BY <1>1, <2>1, <2>2, <2>3, Registers DEF IInv
  <2>5. QED BY <1>1, <2>1, <2>4
<1>2. ASSUME NEW s \in Sessions, Progress(s), At(s, "hook", "enter")' PROVE Fine(s)'
  <2>1. HookEnter(s) /\ sess'[s].booking = sess[s].booking /\ sess'[s].stale = sess[s].stale
    BY <1>2, EnterSteps DEF IInv, At, JoinLock
  <2>2. UNCHANGED <<booking, participants>>
    BY <2>1 DEF HookEnter, Enter
  <2>3. sess[s].booking \in Bookings
    BY <2>1 DEF HookEnter, IInv, SessionShape, WellFormed
  <2>4. Fine(s)
    BY <2>1, <2>3, ExpiredRow DEF HookEnter, MaySell, Live, IInv
  <2>5. QED BY <2>1, <2>2, <2>4
<1>3. ASSUME NEW s \in Sessions, Progress(s) PROVE HookEntered'
  <2>1. \A t \in Sessions \ {s} : sess'[t] = sess[t]
    BY <1>3, OtherSessions DEF IInv
  <2>2. QED BY <1>1, <1>2, <1>3, <2>1 DEF HookEntered, At
<1>4. ASSUME NEW s \in Sessions, Arrive(s) \/ Crash(s) PROVE HookEntered'
  BY <1>4, ArriveStep DEF IInv, HookEntered, At
<1>5. CASE Other
  BY <1>5, OtherUnchanged DEF IInv, HookEntered, At
<1>6. QED BY <1>3, <1>4, <1>5 DEF Next, Other

\* While a registration holds the event no step takes a spot but its own.
LEMMA NoSpotTaken ==
  ASSUME IInv, NEW t \in Sessions, At(t, "join", "enter"), UsedAfterExpiry(t) < event.capacity,
         sess'[t] = sess[t], event' = event, participants' = participants,
         \A b \in Bookings : booking'[b].status = "RESERVED" => booking'[b] = booking[b]
  PROVE  UsedAfterExpiry(t)' < event'.capacity
<1>1. TypeOK /\ IsFiniteSet(Held(t)) /\ Cardinality(Held(t)) \in Nat /\ Cardinality(participants) \in Nat
  BY HeldFinite DEF IInv
<1>2. Held(t)' \subseteq Held(t)
  BY <1>1 DEF Held, AfterExpiry, TypeOK, BookingRow
<1>3. Cardinality(Held(t)') <= Cardinality(Held(t)) /\ Cardinality(Held(t)') \in Nat
  BY <1>1, <1>2, FS_Subset, FS_CardinalityType
<1>4. event.capacity \in Nat
  BY <1>1 DEF TypeOK, EventRow
<1>5. UsedAfterExpiry(t)' = Cardinality(participants) + Cardinality(Held(t)')
  BY DEF UsedAfterExpiry
<1>6. QED BY <1>1, <1>3, <1>4, <1>5 DEF UsedAfterExpiry

LEMMA JoinEnteredStep ==
  ASSUME IInv, Next
  PROVE  JoinEntered'
<1> DEFINE Alone(t) == \A u \in Sessions \ {t} : ~At(u, "join", "enter")
<1>1. ASSUME NEW s \in Sessions, Progress(s), NEW t \in Sessions \ {s}, At(t, "join", "enter")
      PROVE  UsedAfterExpiry(t)' < event'.capacity /\ Alone(t)'
  <2>1. \A u \in Sessions \ {s} : sess'[u] = sess[u]
    BY <1>1, OtherSessions DEF IInv
  <2>2. UsedAfterExpiry(t) < event.capacity /\ Alone(t) /\ ~EventFree
    BY <1>1 DEF IInv, JoinEntered, EventFree
  <2>3. /\ ~Join(s) /\ ~HookSell(s) /\ ~JoinLock(s)
        /\ ~\E b \in Bookings : Book(s, b)
    BY <1>1, <2>2 DEF Join, HookSell, JoinLock, Book
  <2>4. participants' = participants
    BY <1>1, <2>3, Registers DEF IInv
  <2>5. ASSUME NEW b \in Bookings, booking'[b].status = "RESERVED" PROVE booking'[b] = booking[b]
    BY <1>1, <2>3, <2>5, RowChange
  <2>6. event' = event
    BY <1>1 DEF Progress, ExpireRow, Book, CommitExpiry, BookRefused, SetKey, SetKeyFails,
      Join, JoinLock, JoinRepeated, JoinRefused, HookEnter, Enter, Cancel, CancelRefused,
      DelKey, PayLock, PayCharge, PayRefused, PayRecord, PayConflict, HookLock, HookSettled,
      HookBooking, HookSell, HookRefused, BreakDeadlock, GiveUp, Abandon, Goto
  <2>7. UsedAfterExpiry(t)' < event'.capacity
    BY <1>1, <2>1, <2>2, <2>4, <2>5, <2>6, NoSpotTaken
  <2>8. ~At(s, "join", "enter")'
    BY <1>1, <2>3, EnterSteps DEF IInv, At, HookEnter
  <2>9. QED BY <2>1, <2>2, <2>7, <2>8 DEF At
<1>2. ASSUME NEW s \in Sessions, Progress(s), At(s, "join", "enter")'
      PROVE  UsedAfterExpiry(s)' < event'.capacity /\ Alone(s)'
  <2>1. JoinLock(s) /\ sess'[s].stale = sess[s].stale
    BY <1>2, EnterSteps DEF IInv, At, HookEnter
  <2>2. UNCHANGED <<booking, participants, event>>
    BY <2>1 DEF JoinLock, Enter
  <2>3. UsedAfterExpiry(s)' = UsedAfterExpiry(s)
    BY <2>1, <2>2 DEF UsedAfterExpiry, Held, AfterExpiry
  <2>4. \A u \in Sessions \ {s} : sess'[u] = sess[u]
    BY <1>2, OtherSessions DEF IInv
  <2>5. QED BY <2>1, <2>2, <2>3, <2>4 DEF JoinLock, MayJoin, EventFree, At
<1>3. ASSUME NEW s \in Sessions, Progress(s) PROVE JoinEntered'
  <2>1. \A t \in Sessions \ {s} : sess'[t] = sess[t]
    BY <1>3, OtherSessions DEF IInv
  <2>2. \A t \in Sessions \ {s} : At(t, "join", "enter")' <=> At(t, "join", "enter")
    BY <2>1 DEF At
  <2>3. QED BY <1>1, <1>2, <1>3, <2>2 DEF JoinEntered
<1>4. ASSUME NEW s \in Sessions, Arrive(s) \/ Crash(s) PROVE JoinEntered'
  <2>1. /\ UNCHANGED <<booking, participants>> /\ \A t \in Sessions \ {s} : sess'[t] = sess[t]
        /\ sess'[s].phase # "enter"
    BY <1>4, ArriveStep DEF IInv
  <2>2. event' = event
    BY <1>4 DEF Arrive, Crash, StartBook, StartJoin, StartList, StartCancel, StartPay,
                StartHook, Start, Abandon
  <2>3. ASSUME NEW t \in Sessions, At(t, "join", "enter")'
        PROVE  UsedAfterExpiry(t)' < event'.capacity /\ Alone(t)'
    <3>1. At(t, "join", "enter") /\ t # s /\ sess'[t] = sess[t]
      BY <2>1, <2>3 DEF At
    <3>2. UsedAfterExpiry(t)' < event'.capacity
      BY <2>1, <2>2, <3>1, NoSpotTaken DEF IInv, JoinEntered
    <3>3. Alone(t)'
      BY <2>1, <3>1 DEF IInv, JoinEntered, At
    <3>4. QED BY <3>2, <3>3
  <2>4. QED BY <2>3 DEF JoinEntered
<1>5. CASE Other
  <2>1. UNCHANGED <<booking, participants, sess>>
    BY <1>5, OtherUnchanged
  <2>2. ASSUME NEW t \in Sessions, At(t, "join", "enter") PROVE event' = event
    <3>1. ~EventFree
      BY <2>2 DEF EventFree
    <3>2. QED
      BY <1>5, <3>1 DEF Other, MarkNonPaid, Organizer, EditEvent, WriteEdit, CancelEvent,
                        KeyExpires, Tick
  <2>3. ASSUME NEW t \in Sessions, At(t, "join", "enter")'
        PROVE  UsedAfterExpiry(t)' < event'.capacity /\ Alone(t)'
    <3>1. At(t, "join", "enter") /\ event' = event
      BY <2>1, <2>2, <2>3 DEF At
    <3>2. UsedAfterExpiry(t)' < event'.capacity
      BY <2>1, <3>1, NoSpotTaken DEF IInv, JoinEntered
    <3>3. QED BY <2>1, <3>1, <3>2 DEF IInv, JoinEntered, At
  <2>4. QED BY <2>3 DEF JoinEntered
<1>6. QED BY <1>3, <1>4, <1>5 DEF Next, Other

-----------------------------------------------------------------------------
(* The theorems. *)

LEMMA ShapeStep ==
  ASSUME IInv, Next
  PROVE  SessionShape'
<1>1. ASSUME NEW s \in Sessions, Crash(s) PROVE SessionShape'
  BY <1>1, FinishShape DEF Crash, Abandon, IInv
<1>2. CASE Other
  BY <1>2, OtherUnchanged DEF IInv, SessionShape
<1>3. QED BY <1>1, <1>2, StartShape, ProgressShape DEF Next, Other, IInv

LEMMA TypeStep ==
  ASSUME IInv, Next
  PROVE  TypeOK'
<1>1. ASSUME NEW s \in Sessions, Crash(s) PROVE TypeOK'
  BY <1>1, AbandonType DEF Crash, IInv
<1>2. QED BY <1>1, OtherType, ArriveType, ProgressType DEF Next, Other, IInv

\* The invariant every property below is read off: types, what a session's step
\* refers to, who holds which lock, what a check made before a wait still guarantees
\* after it, and what the tables say of each other.
THEOREM Invariance == Spec => []IInv
<1>1. IInv /\ [Next]_vars => IInv'
  <2> SUFFICES ASSUME IInv, [Next]_vars PROVE IInv'
    OBVIOUS
  <2>1. CASE Next
    BY <2>1, TypeStep, ShapeStep, OwnedStep, LocksStep, HookStep, HookEnteredStep,
       JoinEnteredStep, TablesStep DEF IInv
  <2>2. CASE UNCHANGED vars
    <3>1. TypeOK'
      BY <2>2 DEF vars, IInv, TypeOK
    <3>2. SessionShape' /\ RowsOwned'
      BY <2>2 DEF vars, IInv, SessionShape, RowsOwned
    <3>3. LocksExclusive' /\ HookOwnsPayment'
      BY <2>2 DEF vars, IInv, LocksExclusive, RowLocks, HookOwnsPayment
    <3>4. Tables'
      BY <2>2 DEF vars, IInv, Tables, SoldOnce, OneHoldPerUser, NotifiedOnce, WithStatus
    <3>5. HookEntered' /\ JoinEntered'
      BY <2>2 DEF vars, IInv, HookEntered, JoinEntered, UsedAfterExpiry, Held, AfterExpiry, At
    <3>6. QED BY <3>1, <3>2, <3>3, <3>4, <3>5 DEF IInv
  <2>3. QED BY <2>1, <2>2
<1>2. QED BY InitIInv, <1>1, PTL DEF Spec

\* Every variable keeps its type, for any users, bookings and sessions.
THEOREM TypeCorrect == Spec => []TypeOK
<1>1. IInv => TypeOK
  BY DEF IInv
<1>2. QED BY Invariance, <1>1, PTL

\* Row locks are exclusive, and what a transaction has marked EXPIRED stays
\* RESERVED for everybody else until it commits (the FOR UPDATE statements and
\* UPDATEs of the booking and payment services).
THEOREM Locking == Spec => []LocksExclusive
<1>1. IInv => LocksExclusive
  BY DEF IInv
<1>2. QED BY Invariance, <1>1, PTL

\* PAID payments and COMPLETED bookings are the same, their owners are
\* participants, and nobody buys the same event twice, however many webhooks,
\* cancellations and expiries interleave (processPaymentWebhook).
THEOREM SaleSafety == Spec => []SoldOnce
<1>1. IInv => SoldOnce
  BY DEF IInv, Tables
<1>2. QED BY Invariance, <1>1, PTL

\* Nobody holds two spots at once (createPaidBooking).
THEOREM HoldSafety == Spec => []OneHoldPerUser
<1>1. IInv => OneHoldPerUser
  BY DEF IInv, Tables
<1>2. QED BY Invariance, <1>1, PTL

\* A sale and a cancellation are announced once (processPaymentWebhook,
\* cancelBooking).
THEOREM NoticeSafety == Spec => []NotifiedOnce
<1>1. IInv => NotifiedOnce
  BY DEF IInv, Tables
<1>2. QED BY Invariance, <1>1, PTL

\* A booking that has ended and a payment that is settled never change again:
\* late webhooks, cancellations, expiries and failure reports included.
THEOREM Finality == Spec => EndedIsFinal
<1> DEFINE Ended == \A b \in Bookings :
             booking[b].status \in {"EXPIRED", "CANCELLED", "COMPLETED"} => booking'[b] = booking[b]
           Settled == \A b \in Bookings :
             payment[b] \in {"PAID", "FAILED", "CANCELLED"} => payment'[b] = payment[b]
<1>1. ASSUME IInv, NEW s \in Sessions, Progress(s) PROVE Ended /\ Settled
  <2>1. Ended
    BY <1>1, RowChange, Creation, Sale DEF IInv
  <2>2. Settled
    BY <1>1, PaymentSteps, Sale DEF IInv
  <2>3. QED BY <2>1, <2>2
<1>2. ASSUME IInv, NEW s \in Sessions, Arrive(s) \/ Crash(s) PROVE Ended /\ Settled
  BY <1>2, ArriveStep DEF IInv
<1>3. ASSUME IInv, Other PROVE Ended /\ Settled
  <2>1. Settled
    BY <1>3 DEF Other, MarkNonPaid, Organizer, EditEvent, WriteEdit, CancelEvent, KeyExpires,
                Tick, IInv, TypeOK
  <2>2. QED BY <1>3, <2>1, OtherUnchanged
<1>4. IInv /\ [Next]_vars => [Ended /\ Settled]_vars
  BY <1>1, <1>2, <1>3 DEF Next, Other
<1>5. QED BY Invariance, <1>4, PTL DEF Spec, EndedIsFinal

-----------------------------------------------------------------------------
(* The ledger of spots. *)

\* The ledger counts as the sales do.
LEMMA SameCount == \A S : Ledger!Cardinality(S) = Cardinality(S)
BY DEF Ledger!Cardinality, Cardinality

EndedNow == {b \in Bookings : booking[b].status \in {"EXPIRED", "CANCELLED", "COMPLETED"}}

\* The bookings after an expiry.
LEMMA ExpirySets ==
  ASSUME TypeOK, LocksExclusive, NEW s \in Sessions, booking' = AfterExpiry(s)
  PROVE  /\ HeldNow' = HeldNow \ sess[s].stale
         /\ EndedNow' = EndedNow \cup sess[s].stale
<1>1. sess[s].stale \subseteq Bookings
  BY DEF TypeOK, Session
<1>2. QED BY <1>1, ExpiredRow DEF HeldNow, WithStatus, EndedNow

LEMMA BookHolds ==
  ASSUME IInv, NEW s \in Sessions, NEW b \in Bookings, Book(s, b),
         NEW R, R = sess[s].stale
  PROVE  Ledger!Hold(b, R)
<1> USE DEF IInv
<1>0. sess[s].stale \subseteq Bookings /\ sess[s].stale \subseteq HeldNow
  BY HeldLeft DEF TypeOK, Session
<1>1. b \in Bookings \ (HeldNow \cup EndedNow)
  BY Creation DEF HeldNow, WithStatus, EndedNow
<1>2. \A c \in Bookings \ {b} : booking'[c] = AfterExpiry(s)[c]
  BY Creation
<1>3. booking'[b].status = "RESERVED"
  BY Creation
<1>4. HeldNow' = (HeldNow \ sess[s].stale) \cup {b}
  BY <1>0, <1>1, <1>2, <1>3, ExpiredRow DEF HeldNow, WithStatus
<1>5. EndedNow' = EndedNow \cup sess[s].stale
  BY <1>0, <1>1, <1>2, <1>3, ExpiredRow DEF HeldNow, WithStatus, EndedNow
<1>6. event' = event /\ participants' = participants
  BY DEF Book
<1>7. Cardinality(participants) + Cardinality(HeldNow') <= event.capacity
  <2>1. b \notin Held(s) /\ HeldNow' = Held(s) \cup {b}
    BY <1>1, <1>4, HeldLeft
  <2>2. Cardinality(HeldNow') = Cardinality(Held(s)) + 1
    BY <2>1, HeldFinite, FS_AddElement
  <2>3. Cardinality(participants) + Cardinality(Held(s)) < event.capacity
    BY DEF Book, MayBook, UsedAfterExpiry
  <2>4. event.capacity \in Nat
    BY DEF TypeOK, EventRow
  <2>5. QED BY <2>2, <2>3, <2>4, HeldFinite
<1>8. QED
  BY <1>0, <1>1, <1>4, <1>5, <1>6, <1>7, SameCount
  DEF Ledger!Hold, Ledger!Fits, HeldNow, EndedNow

LEMMA JoinRegisters ==
  ASSUME IInv, NEW s \in Sessions, Join(s), NEW u, u = sess[s].user,
         NEW R, R = sess[s].stale
  PROVE  Ledger!Register(u, R)
<1> USE DEF IInv
<1>1. sess[s].user \in Users \ participants
  BY DEF Join, At, SessionShape, WellFormed
<1>2. participants' = participants \cup {sess[s].user} /\ event' = event
  BY DEF Join
<1>3. HeldNow' = HeldNow \ sess[s].stale /\ EndedNow' = EndedNow \cup sess[s].stale
  BY ExpirySets DEF Join
<1>4. Cardinality(participants') + Cardinality(HeldNow') <= event.capacity
  <2>1. Cardinality(participants') = Cardinality(participants) + 1
    BY <1>1, <1>2, HeldFinite, FS_AddElement
  <2>2. HeldNow' = Held(s)
    BY <1>3, HeldLeft
  <2>3. Cardinality(participants) + Cardinality(Held(s)) < event.capacity
    BY DEF Join, JoinEntered, UsedAfterExpiry
  <2>4. event.capacity \in Nat
    BY DEF TypeOK, EventRow
  <2>5. QED BY <2>1, <2>2, <2>3, <2>4, HeldFinite
<1>5. QED
  BY <1>1, <1>2, <1>3, <1>4, HeldLeft, SameCount
  DEF Ledger!Register, Ledger!Fits, HeldNow, EndedNow

LEMMA HookSells ==
  ASSUME IInv, NEW s \in Sessions, HookSell(s), NEW b \in Bookings, b = sess[s].booking,
         NEW u, u = booking[b].user, NEW R, R = sess[s].stale
  PROVE  Ledger!Sell(b, u, R)
<1> USE DEF IInv
<1>2. b \in HeldNow \ sess[s].stale
  BY DEF HookSell, HookEntered, HeldNow, WithStatus
<1>3. /\ booking[b].user \in Users \ participants
      /\ participants' = participants \cup {booking[b].user}
      /\ booking'[b].status = "COMPLETED"
  BY Sale
<1>4. \A c \in Bookings \ {b} : booking'[c] = AfterExpiry(s)[c]
  BY DEF HookSell, AfterExpiry
<1>5. HeldNow' = HeldNow \ (sess[s].stale \cup {b})
  BY <1>2, <1>3, <1>4, ExpiredRow DEF HeldNow, WithStatus
<1>6. EndedNow' = EndedNow \cup sess[s].stale \cup {b}
  <2>1. sess[s].stale \subseteq Bookings
    BY DEF TypeOK, Session
  <2>2. QED BY <2>1, <1>2, <1>3, <1>4, ExpiredRow DEF EndedNow
<1>7. event' = event
  BY DEF HookSell
<1>8. QED
  BY <1>2, <1>3, <1>5, <1>6, <1>7, HeldLeft DEF Ledger!Sell, HeldNow, EndedNow

LEMMA CancelGivesBack ==
  ASSUME IInv, NEW s \in Sessions, NEW b \in Bookings, Cancels(s, b)
  PROVE  Ledger!GiveBack({b})
<1> USE DEF IInv
<1>1. /\ booking[b].status = "RESERVED" /\ booking'[b].status = "CANCELLED"
      /\ \A c \in Bookings \ {b} : booking'[c] = booking[c]
      /\ event' = event /\ participants' = participants
  BY DEF Cancels, Cancel, SetKeyFails, TypeOK, BookingRow
<1>2. HeldNow' = HeldNow \ {b} /\ EndedNow' = EndedNow \cup {b}
  BY <1>1 DEF HeldNow, EndedNow, WithStatus
<1>3. b \in HeldNow
  BY <1>1 DEF HeldNow, WithStatus
<1>4. QED BY <1>1, <1>2, <1>3 DEF Ledger!GiveBack, HeldNow, EndedNow

LEMMA LedgerStep ==
  ASSUME IInv, Next
  PROVE  [Ledger!Next]_(Ledger!vars)
<1> USE DEF IInv
<1>1. ASSUME UNCHANGED <<event, booking, participants>> PROVE UNCHANGED Ledger!vars
  BY <1>1 DEF Ledger!vars, WithStatus
<1>2. ASSUME NEW R \in SUBSET HeldNow, Ledger!GiveBack(R) PROVE Ledger!Next
  BY <1>2 DEF Ledger!Next, HeldNow
<1>3. ASSUME NEW s \in Sessions, Progress(s) PROVE [Ledger!Next]_(Ledger!vars)
  <2> PICK R : R = sess[s].stale
    OBVIOUS
  <2>0. R \in SUBSET HeldNow
    BY HeldLeft
  <2>1. ASSUME NEW b \in Bookings, Book(s, b) PROVE Ledger!Next
    <3>1. Ledger!Hold(b, R)
      BY <2>1, BookHolds
    <3>2. QED BY <2>0, <3>1 DEF Ledger!Next, HeldNow
  <2>2. CASE Join(s)
    <3> PICK u \in Users : u = sess[s].user
      BY <2>2 DEF Join, At, SessionShape, WellFormed
    <3>1. Ledger!Register(u, R)
      BY <2>2, JoinRegisters
    <3>2. Ledger!Next
      BY <2>0, <3>1 DEF Ledger!Next, HeldNow
    <3>3. QED BY <3>2
  <2>3. CASE HookSell(s)
    <3> PICK b \in Bookings : b = sess[s].booking
      BY <2>3 DEF HookSell, At, SessionShape, WellFormed
    <3> PICK u \in Users : u = booking[b].user
      BY <2>3, Sale
    <3>1. Ledger!Sell(b, u, R)
      BY <2>3, HookSells
    <3>2. Ledger!Next
      BY <2>0, <3>1 DEF Ledger!Next, HeldNow
    <3>3. QED BY <3>2
  <2>4. CASE CommitExpiry(s) \/ PayRecord(s)
    <3>1. booking' = AfterExpiry(s) /\ UNCHANGED <<event, participants>>
      BY <2>4 DEF CommitExpiry, PayRecord
    <3>2. Ledger!GiveBack(R)
      BY <2>0, <3>1, ExpirySets DEF Ledger!GiveBack, HeldNow, EndedNow
    <3>3. Ledger!Next
      BY <1>2, <2>0, <3>2
    <3>4. QED BY <3>3
  <2>5. CASE Cancel(s) \/ SetKeyFails(s)
    <3> PICK b \in Bookings : b = sess[s].booking
      BY <2>5 DEF Cancel, SetKeyFails, At, SessionShape, WellFormed
    <3>1. CASE Cancels(s, b)
      <4>1. Ledger!GiveBack({b})
        BY <3>1, CancelGivesBack
      <4>2. {b} \in SUBSET HeldNow
        BY <3>1 DEF Cancels, HeldNow, WithStatus
      <4>3. Ledger!Next
        BY <1>2, <4>1, <4>2
      <4>4. QED BY <4>3
    <3>2. CASE ~Cancels(s, b)
      <4>1. UNCHANGED <<event, booking, participants>>
        BY <2>5, <3>2 DEF Cancel, SetKeyFails, Cancels, TypeOK
      <4>2. QED BY <1>1, <4>1
    <3>3. QED BY <3>1, <3>2
  <2>6. CASE UNCHANGED <<event, booking, participants>>
    BY <1>1, <2>6
  <2>7. QED
    BY <1>3, <2>1, <2>2, <2>3, <2>4, <2>5, <2>6
    DEF Progress, ExpireRow, BookRefused, SetKey, JoinLock, JoinRepeated, JoinRefused,
        HookEnter, Enter, CancelRefused, DelKey, PayLock, PayCharge, PayRefused, PayConflict, HookLock, HookSettled, HookBooking,
        HookRefused, BreakDeadlock, GiveUp, Abandon, Goto
<1>4. ASSUME NEW s \in Sessions, Arrive(s) \/ Crash(s) PROVE UNCHANGED Ledger!vars
  <2>1. UNCHANGED <<event, booking, participants>>
    BY <1>4 DEF Arrive, Crash, StartBook, StartJoin, StartList, StartCancel,
                StartPay, StartHook, Start, Abandon
  <2>2. QED BY <1>1, <2>1
<1>5. CASE Other
  <2>1. UNCHANGED <<booking, participants>>
    BY <1>5, OtherUnchanged
  <2>2. CASE WriteEdit \/ CancelEvent
    <3>1. event'.capacity \in Nat \ {0}
      BY <2>2, EventAssumption DEF WriteEdit, CancelEvent, TypeOK, EventRow
    <3>2. Ledger!Resize
      BY <2>1, <3>1 DEF Ledger!Resize, WithStatus
    <3>3. QED BY <3>2 DEF Ledger!Next
  <2>3. CASE ~(WriteEdit \/ CancelEvent)
    <3>1. UNCHANGED event
      BY <1>5, <2>3 DEF Other, MarkNonPaid, Organizer, EditEvent, KeyExpires, Tick
    <3>2. QED BY <1>1, <2>1, <3>1
  <2>4. QED BY <2>2, <2>3
<1>6. QED BY <1>3, <1>4, <1>5 DEF Next, Other

\* The sales implement the ledger: no interleaving of requests, webhooks,
\* crashes and edits takes a spot beyond the capacity of the moment, sells a
\* spot that is not held, or holds one again for an ended booking.
THEOREM SalesRefineLedger == Spec => SpotsLedger
<1>1. Init => Ledger!Init
  BY EventAssumption DEF Init, Ledger!Init, WithStatus, EventRow
<1>2. IInv /\ [Next]_vars => [Ledger!Next]_(Ledger!vars)
  <2>1. CASE UNCHANGED vars
    BY <2>1 DEF vars, Ledger!vars, WithStatus
  <2>2. QED BY <2>1, LedgerStep
<1>3. QED BY Invariance, <1>1, <1>2, PTL DEF Spec, SpotsLedger, Ledger!Spec

-----------------------------------------------------------------------------
(* Capacity and time limits. *)

\* A step of the ledger takes spots only within the capacity.
LEMMA LedgerFits ==
  ASSUME participants \subseteq Users, participants' \subseteq Users,
         [Ledger!Next]_(Ledger!vars), Used' > Used
  PROVE  Used' <= event'.capacity
<1>0. /\ IsFiniteSet(HeldNow) /\ IsFiniteSet(participants)
      /\ \A n \in {Cardinality(participants), Cardinality(HeldNow),
                   Cardinality(participants'), Cardinality(HeldNow')} : n \in Nat
  <2>1. HeldNow \subseteq Bookings /\ HeldNow' \subseteq Bookings
    BY DEF HeldNow, WithStatus
  <2>2. QED BY <2>1, SetsAssumption, FS_Subset, FS_CardinalityType
<1> PICK p, h, q, k : /\ p = Cardinality(participants) /\ h = Cardinality(HeldNow)
                      /\ q = Cardinality(participants') /\ k = Cardinality(HeldNow')
  OBVIOUS
<1>1. Used' = q + k /\ q + k > p + h /\ {p, h, q, k} \subseteq Nat
  BY <1>0 DEF Used, HeldNow
<1>2. ASSUME HeldNow' \subseteq HeldNow, participants' = participants PROVE FALSE
  <2>1. k <= h /\ q = p
    BY <1>0, <1>2, FS_Subset
  <2>2. QED BY <1>1, <2>1
<1>3. ASSUME NEW b, NEW R, Ledger!Hold(b, R) PROVE Used' <= event'.capacity
  BY <1>1, <1>3, SameCount DEF Ledger!Hold, Ledger!Fits, HeldNow
<1>4. ASSUME NEW u, NEW R, Ledger!Register(u, R) PROVE Used' <= event'.capacity
  BY <1>1, <1>4, SameCount DEF Ledger!Register, Ledger!Fits, HeldNow
<1>5. ASSUME NEW b, NEW u, NEW R, Ledger!Sell(b, u, R) PROVE FALSE
  <2>1. /\ b \in HeldNow /\ HeldNow' \subseteq HeldNow \ {b}
        /\ u \notin participants /\ participants' = participants \cup {u}
    BY <1>5 DEF Ledger!Sell, HeldNow
  <2>2. q = p + 1
    BY <1>0, <2>1, FS_AddElement
  <2>3. IsFiniteSet(HeldNow \ {b}) /\ Cardinality(HeldNow \ {b}) = h - 1
    BY <1>0, <2>1, FS_RemoveElement
  <2>4. k <= h - 1
    BY <2>1, <2>3, FS_Subset
  <2>5. QED BY <1>1, <2>2, <2>4
<1>6. ASSUME NEW R, Ledger!GiveBack(R) PROVE FALSE
  BY <1>2, <1>6 DEF Ledger!GiveBack, HeldNow
<1>7. ~Ledger!Resize
  BY <1>2 DEF Ledger!Resize, HeldNow
<1>8. ~UNCHANGED Ledger!vars
  BY <1>2 DEF Ledger!vars, HeldNow
<1>9. QED BY <1>3, <1>4, <1>5, <1>6, <1>7, <1>8 DEF Ledger!Next

\* The ledger alone keeps to the capacity: owners are people, and each of its steps that
\* takes a spot finds one, whatever the handlers do between.
THEOREM LedgerSuffices == SpotsLedger => NoOversell
<1> DEFINE Owners == participants \subseteq Users
<1>1. Ledger!Init => Owners
  BY DEF Ledger!Init
<1>2. Owners /\ [Ledger!Next]_(Ledger!vars) => Owners'
  BY DEF Ledger!Next, Ledger!vars, Ledger!Hold, Ledger!Register, Ledger!Sell,
     Ledger!GiveBack, Ledger!Resize
<1>3. Owners /\ Owners' /\ [Ledger!Next]_(Ledger!vars) =>
        [Used' > Used => Used' <= event'.capacity]_vars
  BY LedgerFits
<1>4. QED BY <1>1, <1>2, <1>3, PTL DEF SpotsLedger, Ledger!Spec, NoOversell

\* No step takes a spot the event does not have, whatever bookings, registrations,
\* sales and edits of the capacity interleave (createPaidBooking, joinFreeEvent,
\* processPaymentWebhook, updateEvent).
THEOREM CapacityKept == Spec => NoOversell
BY SalesRefineLedger, LedgerSuffices, PTL

\* "Event full" is answered only because of live bookings and participants
\* (createPaidBooking after expireStaleBookings).
THEOREM FullKept == Spec => FullOnlyWhenLive
<1> DEFINE Unexpired(s) == {b \in WithStatus("RESERVED") : booking[b].expires > sess[s].began}
           Full(s) == (BookRefused(s) /\ MayOtherwiseBook(s)) =>
                        Cardinality(participants) + Cardinality(Unexpired(s)) >= event.capacity
<1>1. ASSUME IInv, NEW s \in Sessions, BookRefused(s), MayOtherwiseBook(s)
      PROVE  Cardinality(participants) + Cardinality(Unexpired(s)) >= event.capacity
  <2>1. Held(s) \subseteq Unexpired(s)
    <3> SUFFICES ASSUME NEW b \in Held(s)
        PROVE  b \in Bookings /\ booking[b].status = "RESERVED" /\ booking[b].expires > sess[s].began
      BY DEF WithStatus
    <3>1. b \in Bookings /\ b \in HeldNow \ sess[s].stale
      BY <1>1, HeldLeft DEF IInv, Held
    <3>2. b \notin Targets(s) /\ booking[b].status = "RESERVED"
      BY <1>1, <3>1 DEF BookRefused, Swept, HeldNow, WithStatus
    <3>3. ~(booking[b].expires <= sess[s].began)
      BY <1>1, <3>1, <3>2 DEF Targets, BookRefused
    <3>4. booking[b].expires \in Nat /\ sess[s].began \in Nat
      BY <1>1, <3>1 DEF IInv, TypeOK, BookingRow, Session
    <3>5. QED BY <3>1, <3>2, <3>3, <3>4
  <2>2. Unexpired(s) \subseteq Bookings
    BY DEF WithStatus
  <2>3. IsFiniteSet(Unexpired(s)) /\ Cardinality(Unexpired(s)) \in Nat /\ Cardinality(Held(s)) <= Cardinality(Unexpired(s))
    BY <2>1, <2>2, SetsAssumption, FS_Subset, FS_CardinalityType
  <2>4. Cardinality(participants) \in Nat /\ Cardinality(Held(s)) \in Nat
    BY <1>1, HeldFinite DEF IInv
  <2>5. ~(Cardinality(participants) + Cardinality(Held(s)) < event.capacity)
    BY <1>1 DEF BookRefused, MayBook, UsedAfterExpiry
  <2>6. event.capacity \in Nat
    BY <1>1 DEF IInv, TypeOK, EventRow
  <2> HIDE DEF Live
  <2>7. QED BY <2>3, <2>4, <2>5, <2>6
<1>2. IInv /\ [Next]_vars => [\A s \in Sessions : Full(s)]_vars
  BY <1>1
<1>3. QED BY Invariance, <1>2, PTL DEF Spec, FullOnlyWhenLive

\* What is marked is over, although the request that marked it began earlier, and what a
\* webhook found in time was in time when it began, however long it waits for the event.
Overdue ==
  \A s \in Sessions :
    /\ sess[s].began <= now
    /\ \A b \in sess[s].stale : booking[b].expires <= now
    /\ At(s, "hook", "enter") => sess[s].began < booking[sess[s].booking].expires

\* What a request's step marks, and when it began.
LEMMA MarkSteps ==
  ASSUME TypeOK, SessionShape, NEW s \in Sessions, Progress(s)
  PROVE  /\ now' = now /\ sess'[s].began \in {0, sess[s].began}
         /\ \A b \in sess'[s].stale \ sess[s].stale : booking[b].expires <= sess[s].began
<1> DEFINE Goal == /\ now' = now /\ sess'[s].began \in {0, sess[s].began}
                   /\ \A b \in sess'[s].stale \ sess[s].stale :
                        booking[b].expires <= sess[s].began
<1>0. sess \in [Sessions -> Session]
  BY DEF TypeOK
<1>1. ASSUME NEW b \in Bookings, ExpireRow(s, b) PROVE Goal
  <2>1. sess'[s] = [sess[s] EXCEPT !.stale = @ \cup {b}] /\ now' = now
    BY <1>0, <1>1 DEF ExpireRow, Become
  <2>2. sess'[s].stale = sess[s].stale \cup {b} /\ sess'[s].began = sess[s].began
    BY <1>0, <2>1 DEF Session
  <2>3. booking[b].expires <= sess[s].began
    BY <1>1 DEF ExpireRow, Targets
  <2>4. QED BY <2>1, <2>2, <2>3
<1>2. ASSUME NEW p, Become(s, [sess[s] EXCEPT !.phase = p]), now' = now PROVE Goal
  <2>1. sess'[s] = [sess[s] EXCEPT !.phase = p]
    BY <1>0, <1>2 DEF Become
  <2>2. sess'[s].stale = sess[s].stale /\ sess'[s].began = sess[s].began
    BY <1>0, <2>1 DEF Session
  <2>3. QED BY <1>2, <2>2
<1>3. ASSUME NEW r, Become(s, r), now' = now, r.began = 0, r.stale \in {{}, sess[s].stale}
      PROVE  Goal
  <2>1. sess'[s] = r
    BY <1>0, <1>3 DEF Become
  <2>2. QED BY <1>3, <2>1
<1>4. ASSUME NEW p, NEW b, Become(s, After(s, p, b)), now' = now PROVE Goal
  <2>1. After(s, p, b).began = 0 /\ After(s, p, b).stale = {}
    BY DEF After, IdleSession
  <2>2. QED BY <1>3, <1>4, <2>1
<1>5. CASE PayCharge(s)
  <2> DEFINE r == [After(s, "charge", sess[s].booking) EXCEPT !.stale = sess[s].stale]
  <2>1. r.began = 0 /\ r.stale = sess[s].stale
    BY DEF After, IdleSession
  <2>2. Become(s, r) /\ now' = now
    BY <1>5 DEF PayCharge
  <2> HIDE DEF r
  <2>3. QED BY <1>3, <2>1, <2>2
<1>6. ASSUME Finish(s), now' = now PROVE Goal
  <2>1. IdleSession.began = 0 /\ IdleSession.stale = {}
    BY DEF IdleSession
  <2>2. QED BY <1>3, <1>6, <2>1 DEF Finish
<1>7. Goal
  BY <1>1, <1>2, <1>4, <1>5, <1>6
  DEF Progress, Book, CommitExpiry, BookRefused, SetKey, SetKeyFails, Join, JoinLock, JoinRepeated, JoinRefused, HookEnter, Enter,
      Cancel, CancelRefused, DelKey, PayLock, PayRefused, PayRecord, PayConflict, HookLock,
      HookSettled, HookBooking, HookSell, HookRefused, BreakDeadlock, GiveUp, Abandon, Goto
<1>8. QED BY <1>7

LEMMA OverdueStep ==
  ASSUME IInv, Overdue, [Next]_vars
  PROVE  Overdue'
<1>0. /\ now \in Nat /\ sess \in [Sessions -> Session]
      /\ \A s \in Sessions : sess[s].began \in Nat /\ sess[s].stale \subseteq Bookings
      /\ \A b \in Bookings : booking[b].expires \in Nat
  BY DEF IInv, TypeOK, Session, BookingRow
<1>1. ASSUME NEW s \in Sessions, Progress(s) PROVE Overdue'
  <2>1. ASSUME NEW t \in Sessions \ {s}
        PROVE  /\ sess'[t].began <= now' /\ \A b \in sess'[t].stale : booking'[b].expires <= now'
               /\ At(t, "hook", "enter")' => sess'[t].began < booking'[sess'[t].booking].expires
    <3>1. sess'[t] = sess[t] /\ now' = now
      BY <1>1, OtherSessions, MarkSteps DEF IInv
    <3>2. \A b \in sess[t].stale : booking'[b] = booking[b]
      BY <1>1, OthersStale DEF IInv
    <3>3. At(t, "hook", "enter") => booking'[sess[t].booking] = booking[sess[t].booking]
      BY <1>1, HookRow
    <3>4. QED BY <3>1, <3>2, <3>3 DEF Overdue, At
  <2>2. sess'[s].began <= now'
    BY <1>0, <1>1, MarkSteps DEF IInv, Overdue
  <2>3. ASSUME NEW b \in sess'[s].stale PROVE booking'[b].expires <= now'
    <3>1. booking'[b] = booking[b] /\ now' = now
      BY <1>1, LockSteps, MarkSteps DEF IInv
    <3>2. CASE b \in sess[s].stale
      BY <3>1, <3>2 DEF Overdue
    <3>3. CASE b \notin sess[s].stale
      <4>1. booking[b].expires <= sess[s].began /\ sess[s].began <= now
        BY <1>1, <3>3, MarkSteps DEF IInv, Overdue
      <4>2. b \in Bookings
        BY <1>1, TypeStep DEF IInv, TypeOK, Session, Next
      <4>3. QED BY <1>0, <3>1, <4>1, <4>2
    <3>4. QED BY <3>2, <3>3
  <2>4. ASSUME At(s, "hook", "enter")'
        PROVE  sess'[s].began < booking'[sess'[s].booking].expires
    <3>1. HookEnter(s) /\ sess'[s].began = sess[s].began /\ sess'[s].booking = sess[s].booking
      BY <1>1, <2>4, EnterSteps DEF IInv, At, JoinLock
    <3>2. /\ booking' = booking /\ sess[s].booking \in Bookings
          /\ booking[sess[s].booking].expires > now
      BY <3>1 DEF HookEnter, Enter, MaySell, Live, IInv, SessionShape, WellFormed
    <3>3. sess[s].began <= now
      BY DEF Overdue
    <3>4. QED BY <1>0, <3>1, <3>2, <3>3
  <2>5. QED BY <2>1, <2>2, <2>3, <2>4 DEF Overdue
<1>2. ASSUME NEW s \in Sessions, Arrive(s) \/ Crash(s) PROVE Overdue'
  <2>1. /\ booking' = booking /\ sess'[s].stale = {} /\ now' = now /\ sess'[s].phase # "enter"
        /\ \A t \in Sessions \ {s} : sess'[t] = sess[t]
    <3>1. now' = now
      BY <1>2 DEF Arrive, Crash, StartBook, StartJoin, StartList, StartCancel, StartPay,
                  StartHook, Start, Abandon
    <3>2. QED BY <1>2, <3>1, ArriveStep DEF IInv
  <2>2. sess'[s].began \in {0, now}
    <3>1. ASSUME NEW op, NEW p, NEW u, NEW b, Start(s, op, p, u, b) PROVE sess'[s].began = now
      BY <1>0, <3>1 DEF Start, Become, IdleSession
    <3>2. Crash(s) => sess'[s].began = 0
      BY <1>0 DEF Crash, Abandon, Finish, Become, IdleSession
    <3>3. QED
      BY <1>2, <3>1, <3>2 DEF Arrive, StartBook, StartJoin, StartList, StartCancel, StartPay,
                              StartHook
  <2>3. QED BY <1>0, <2>1, <2>2 DEF Overdue, At
<1>3. CASE Other
  <2>1. UNCHANGED <<booking, sess>> /\ now' \in {now, now + 1}
    BY <1>3, OtherUnchanged DEF Other, MarkNonPaid, Organizer, EditEvent, WriteEdit,
                                CancelEvent, KeyExpires, Tick
  <2>2. \A s \in Sessions : \A b \in sess[s].stale : booking[b].expires <= now + 1
    BY <1>0 DEF Overdue
  <2>3. QED BY <1>0, <2>1, <2>2 DEF Overdue, At
<1>4. CASE UNCHANGED vars
  BY <1>4 DEF vars, Overdue, At
<1>5. QED BY <1>1, <1>2, <1>3, <1>4 DEF Next, Other

LEMMA LimitStep ==
  ASSUME IInv, Overdue, NEW s \in Sessions, Progress(s), NEW b \in Bookings
  PROVE  /\ (booking[b].status # "COMPLETED" /\ booking'[b].status = "COMPLETED")
              => \E t \in Sessions : sess[t].booking = b /\ sess[t].began < booking[b].expires
         /\ (booking[b].status # "EXPIRED" /\ booking'[b].status = "EXPIRED")
              => booking[b].expires <= now
<1> USE DEF IInv
<1>0. /\ now \in Nat /\ sess[s].began \in Nat /\ booking[b].expires \in Nat
      /\ booking[b] \in BookingRow
  BY DEF TypeOK, Session, BookingRow
<1>1. CASE booking'[b] = booking[b]
  BY <1>1
<1>2. CASE Expires(s, b)
  <2>1. booking'[b].status = "EXPIRED" /\ booking[b].expires <= now
    BY <1>0, <1>2 DEF Expires, Overdue, BookingRow
  <2>2. QED BY <2>1
<1>3. CASE Book(s, b)
  BY <1>3, Creation
<1>4. CASE Cancels(s, b)
  <2>1. booking'[b].status = "CANCELLED"
    BY <1>0, <1>4 DEF Cancels, BookingRow
  <2>2. QED BY <2>1
<1>5. CASE Completes(s, b)
  <2>1. sess[s].booking = b
    BY <1>5 DEF Completes
  <2>2. sess[s].began < booking[b].expires
    BY <1>5, <2>1 DEF Completes, HookSell, Overdue
  <2>3. booking'[b].status = "COMPLETED"
    BY <1>5, Sale DEF Completes
  <2>4. QED BY <2>1, <2>2, <2>3
<1>6. QED BY <1>1, <1>2, <1>3, <1>4, <1>5, RowSteps

\* A spot is sold only on a booking that was within its time when the webhook
\* began, and is expired only once its time is over (processPaymentWebhook,
\* expireStaleBookings).
THEOREM LimitsKept == Spec => TimeLimitKept
<1> DEFINE Limit(b) ==
      /\ (booking[b].status # "COMPLETED" /\ booking'[b].status = "COMPLETED")
           => \E s \in Sessions : sess[s].booking = b /\ sess[s].began < booking[b].expires
      /\ (booking[b].status # "EXPIRED" /\ booking'[b].status = "EXPIRED")
           => booking[b].expires <= now
<1>1. Init => Overdue
  BY DEF Init, Overdue, At, IdleSession
<1>2. IInv /\ Overdue /\ [Next]_vars => Overdue'
  BY OverdueStep
<1>3. ASSUME IInv, Overdue, Next PROVE \A b \in Bookings : Limit(b)
  <2>1. ASSUME NEW s \in Sessions, Progress(s) PROVE \A b \in Bookings : Limit(b)
    BY <1>3, <2>1, LimitStep
  <2>2. ASSUME booking' = booking PROVE \A b \in Bookings : Limit(b)
    BY <2>2
  <2>3. ASSUME NEW s \in Sessions, Arrive(s) \/ Crash(s) PROVE booking' = booking
    BY <1>3, <2>3, ArriveStep DEF IInv
  <2>4. CASE Other
    BY <2>2, <2>4, OtherUnchanged
  <2>5. QED BY <1>3, <2>1, <2>2, <2>3, <2>4 DEF Next, Other
<1>4. IInv /\ Overdue /\ [Next]_vars => [\A b \in Bookings : Limit(b)]_vars
  BY <1>3
<1>5. QED BY Invariance, <1>1, <1>2, <1>4, PTL DEF Spec, TimeLimitKept

-----------------------------------------------------------------------------
(* Why every request ends.  RequestsEnd needs fairness and is checked by   *)
(* TLC; the two facts it rests on are proved here for every number of      *)
(* requests: waiting in a circle is always a deadlock Postgres breaks, and *)
(* a request takes a bounded number of steps.                              *)

\* Who has its insert before it and waits, in a closed circle, has crossed another.
LEMMA EntersCross ==
  ASSUME NEW W \in SUBSET Sessions, \A s \in W : WaitsWithin(s, W),
         NEW s \in W, sess[s].phase = "enter"
  PROVE  \E j, h \in W : Crossed(j, h)
<1>1. ASSUME NEW j \in W, At(j, "join", "enter") PROVE \E h \in W : Crossed(j, h)
  BY <1>1 DEF WaitsWithin, Swept, At, Crossed
<1>2. CASE At(s, "join", "enter")
  BY <1>1, <1>2
<1>3. CASE ~At(s, "join", "enter")
  <2>1. \E j \in W : At(j, "join", "enter")
    BY <1>3 DEF WaitsWithin, Swept, At
  <2>2. QED BY <1>1, <2>1
<1>4. QED BY <1>2, <1>3

\* If nobody has, who waits for a row waits for one who is expiring rows.
LEMMA WaitsForExpiry ==
  ASSUME TypeOK, SessionShape, NEW W \in SUBSET Sessions, \A s \in W : WaitsWithin(s, W),
         \A s \in W : sess[s].phase # "enter",
         NEW s \in W, ~At(s, "hook", "lock")
  PROVE  /\ sess[s].phase # "expire" => \E t \in W : sess[t].phase = "expire"
         /\ sess[s].phase = "expire" =>
              /\ ~Swept(s)
              /\ \A b \in Targets(s) \ sess[s].stale :
                   \E t \in W \ {s} : b \in RowLocks(t) /\ sess[t].phase = "expire"
<1>1. ASSUME NEW t \in W, NEW b \in RowLocks(t)
      PROVE  sess[t].phase = "expire"
  <2>1. sess[t].phase \in {"expire", "charge"}
    BY <1>1 DEF RowLocks, SessionShape, WellFormed
  <2>2. sess[t].phase # "charge"
    BY DEF WaitsWithin, Swept, At
  <2>3. QED BY <2>1, <2>2
<1>2. QED BY <1>1 DEF WaitsWithin, HasEntry, Swept, At

LEMMA CircleStep == TypeOK /\ SessionShape => OnlyKnownDeadlocks
<1> SUFFICES ASSUME TypeOK, SessionShape, NEW W \in SUBSET Sessions, W # {},
                    \A s \in W : WaitsWithin(s, W), \A j, h \in W : ~Crossed(j, h)
             PROVE  \E D \in SUBSET W : D # {} /\ Deadlocked(D)
  BY DEF OnlyKnownDeadlocks
<1> DEFINE D == {s \in W : sess[s].phase = "expire"}
<1>0. \A s \in W : sess[s].phase # "enter"
  BY EntersCross
<1>1. D # {}
  <2>1. PICK s \in W : TRUE
    OBVIOUS
  <2>2. CASE ~(At(s, "hook", "lock"))
    BY <1>0, <2>2, WaitsForExpiry
  <2>3. CASE At(s, "hook", "lock")
    <3>1. PICK t \in W : sess[t].op = "hook" /\ sess[t].phase \in {"booking", "expire"}
      BY <1>0, <2>3 DEF WaitsWithin, Swept, At
    <3>2. ~At(t, "hook", "lock")
      BY <3>1 DEF At
    <3>3. QED BY <1>0, <3>1, <3>2, WaitsForExpiry
  <2>4. QED BY <2>2, <2>3
<1>2. ASSUME NEW s \in D
      PROVE  /\ sess[s].phase = "expire" /\ ~Swept(s)
             /\ \A b \in Targets(s) \ sess[s].stale : \E t \in D \ {s} : b \in RowLocks(t)
  <2>1. s \in W /\ sess[s].phase = "expire" /\ ~At(s, "hook", "lock")
    BY DEF At
  <2>2. /\ ~Swept(s)
        /\ \A b \in Targets(s) \ sess[s].stale :
             \E t \in W \ {s} : b \in RowLocks(t) /\ sess[t].phase = "expire"
    BY <1>0, <2>1, WaitsForExpiry
  <2>3. QED BY <2>1, <2>2
<1>3. Deadlocked(D)
  BY <1>2 DEF Deadlocked
<1>4. QED BY <1>1, <1>3

\* For any number of requests and bookings: whenever some wait in a circle, either those
\* of them that are expiring stale rows wait for each other, or a registration and a
\* webhook of one person have crossed; Postgres' detector breaks both (expireStaleBookings
\* inside the transactions of the others; the inserts of joinFreeEvent and
\* processPaymentWebhook).
THEOREM OnlyKnownDeadlocksKept == Spec => []OnlyKnownDeadlocks
<1>1. IInv => OnlyKnownDeadlocks
  BY CircleStep DEF IInv
<1>2. QED BY <1>1, Invariance, PTL

\* A bound on the steps a session in state r can still take before it is idle.
Left(r) ==
  LET rows == Cardinality(Bookings \ r.stale) IN
  IF r.phase = "lock" THEN rows + 5 ELSE
  IF r.phase = "booking" THEN rows + 4 ELSE
  IF r.phase = "expire" THEN rows + 3 ELSE
  IF r.phase \in {"body", "enter"} THEN 2 ELSE
  IF r.phase = "idle" THEN 0 ELSE 1
StepsLeft(s) == Left(sess[s])

LEMMA LeftType ==
  ASSUME NEW r \in Session
  PROVE  /\ Left(r) \in Nat
         /\ r.phase = "idle" <=> Left(r) = 0
         /\ r.phase = "lock" => Left(r) = Cardinality(Bookings \ r.stale) + 5
         /\ r.phase = "booking" => Left(r) = Cardinality(Bookings \ r.stale) + 4
         /\ r.phase = "expire" => Left(r) = Cardinality(Bookings \ r.stale) + 3
         /\ r.phase \in {"body", "enter"} => Left(r) = 2
         /\ r.phase \in {"redis", "charge"} => Left(r) = 1
         /\ Cardinality(Bookings \ r.stale) \in Nat
<1>1. Cardinality(Bookings \ r.stale) \in Nat
  BY SetsAssumption, FS_Subset, FS_CardinalityType
<1>2. QED BY <1>1 DEF Left, Session, Phase

LEMMA ExpireLeft ==
  ASSUME TypeOK, NEW s \in Sessions, NEW b \in Bookings, ExpireRow(s, b)
  PROVE  \E r \in Session : Become(s, r) /\ Left(r) < StepsLeft(s)
<1> DEFINE r == [sess[s] EXCEPT !.stale = sess[s].stale \cup {b}]
<1> DEFINE rest == Bookings \ sess[s].stale
<1>1. /\ Become(s, r) /\ sess[s].phase = "expire" /\ b \in rest /\ sess[s] \in Session
  BY DEF ExpireRow, TypeOK
<1>2. r \in Session /\ r.phase = "expire" /\ Bookings \ r.stale = rest \ {b}
  BY <1>1 DEF Session
<1>3. Cardinality(rest \ {b}) = Cardinality(rest) - 1 /\ Cardinality(rest) \in Nat
  BY <1>1, SetsAssumption, FS_Subset, FS_RemoveElement, FS_CardinalityType
<1> HIDE DEF r, rest
<1>4. Left(r) = Cardinality(rest) + 2
  BY <1>2, <1>3, LeftType
<1>5. StepsLeft(s) = Cardinality(rest) + 3
  BY <1>1, LeftType DEF StepsLeft, rest
<1>6. QED BY <1>1, <1>2, <1>3, <1>4, <1>5

\* The next phase of a request is nearer to its end.
LEMMA GotoLeft ==
  ASSUME TypeOK, NEW s \in Sessions, PayLock(s) \/ HookLock(s) \/ HookBooking(s)
  PROVE  \E r \in Session : Become(s, r) /\ Left(r) < StepsLeft(s)
<1>1. sess[s] \in Session
  BY DEF TypeOK
<1>2. PICK p \in {"booking", "expire"} :
        /\ Become(s, [sess[s] EXCEPT !.phase = p])
        /\ sess[s].phase = "lock" \/ (sess[s].phase = "booking" /\ p = "expire")
  BY DEF PayLock, HookLock, HookBooking, Goto, At
<1> DEFINE r == [sess[s] EXCEPT !.phase = p]
<1>3. r \in Session /\ r.phase = p /\ r.stale = sess[s].stale
  BY <1>1 DEF Session, Phase
<1>4. Become(s, r)
  BY <1>2
<1> DEFINE n == Cardinality(Bookings \ sess[s].stale)
<1>5. n \in Nat
  BY <1>1, LeftType
<1>6. sess[s].phase = "lock" => Left(sess[s]) = n + 5
  BY <1>1, LeftType
<1>7. sess[s].phase = "booking" => Left(sess[s]) = n + 4
  BY <1>1, LeftType
<1>8. (p = "booking" => Left(r) = n + 4) /\ (p = "expire" => Left(r) = n + 3)
  BY <1>3, LeftType
<1> HIDE DEF r, n
<1>9. Left(r) < Left(sess[s])
  BY <1>2, <1>5, <1>6, <1>7, <1>8
<1>10. QED BY <1>3, <1>4, <1>9 DEF StepsLeft

LEMMA EndLeft ==
  ASSUME TypeOK, NEW s \in Sessions, NEW r \in Session, Become(s, r),
         \/ r.phase = "idle" /\ sess[s].phase # "idle"
         \/ r.phase \in {"redis", "charge"} /\ sess[s].phase \in {"expire", "enter", "body"}
         \/ r.phase \in {"enter", "body"} /\ sess[s].phase = "expire"
  PROVE  \E q \in Session : Become(s, q) /\ Left(q) < StepsLeft(s)
<1>1. sess[s] \in Session
  BY DEF TypeOK
<1>2. Cardinality(Bookings \ sess[s].stale) \in Nat
  BY <1>1, LeftType
<1>3. Left(r) < Left(sess[s])
  BY <1>1, <1>2 DEF Left, Session, Phase
<1>4. QED BY <1>3 DEF StepsLeft

LEMMA OwnStepLeft ==
  ASSUME TypeOK, SessionShape, NEW s \in Sessions, sess[s].phase # "idle",
         Progress(s) \/ Crash(s)
  PROVE  \E r \in Session : Become(s, r) /\ Left(r) < StepsLeft(s)
<1>1. IdleSession \in Session /\ IdleSession.phase = "idle" /\ sess[s] \in Session
  BY IdleSessionType DEF IdleSession, TypeOK
<1>2. CASE Finish(s)
  BY <1>1, <1>2, EndLeft DEF Finish
<1>3. ASSUME NEW b \in Bookings, ExpireRow(s, b)
      PROVE  \E r \in Session : Become(s, r) /\ Left(r) < StepsLeft(s)
  BY <1>3, ExpireLeft
<1>4. CASE PayLock(s) \/ HookLock(s) \/ HookBooking(s)
  BY <1>4, GotoLeft
<1>5. ASSUME NEW b \in Bookings \cup {NoBooking}, NEW p \in {"redis", "body"},
             Become(s, After(s, p, b)),
             sess[s].phase = "expire" \/ (p = "redis" /\ sess[s].phase = "enter")
      PROVE  \E r \in Session : Become(s, r) /\ Left(r) < StepsLeft(s)
  <2>1. After(s, p, b) \in Session /\ After(s, p, b).phase = p
    BY AfterType DEF After, IdleSession, Phase
  <2>2. QED BY <1>5, <2>1, EndLeft
<1>6. CASE Cancel(s)
  <2>1. /\ Become(s, [sess[s] EXCEPT !.phase = "redis"]) /\ sess[s].phase = "body"
    BY <1>6 DEF Cancel, At
  <2>2. /\ [sess[s] EXCEPT !.phase = "redis"] \in Session
        /\ [sess[s] EXCEPT !.phase = "redis"].phase = "redis"
    BY <1>1 DEF Session, Phase
  <2>3. QED BY <2>1, <2>2, EndLeft
<1>7. CASE PayCharge(s)
  <2> DEFINE r == [After(s, "charge", sess[s].booking) EXCEPT !.stale = sess[s].stale]
  <2>1. Become(s, r) /\ sess[s].phase = "expire"
    BY <1>7 DEF PayCharge, Swept
  <2>2. r \in Session /\ r.phase = "charge"
    BY <1>1 DEF After, IdleSession, Session, Phase, Op
  <2>3. QED BY <2>1, <2>2, EndLeft
<1>8. sess[s].booking \in Bookings \cup {NoBooking}
  BY <1>1 DEF Session
<1>9. CASE JoinLock(s) \/ HookEnter(s)
  <2>1. Become(s, [sess[s] EXCEPT !.phase = "enter"]) /\ sess[s].phase = "expire"
    BY <1>9 DEF JoinLock, HookEnter, Enter, Swept
  <2>2. /\ [sess[s] EXCEPT !.phase = "enter"] \in Session
        /\ [sess[s] EXCEPT !.phase = "enter"].phase = "enter"
    BY <1>1 DEF Session, Phase
  <2>3. QED BY <2>1, <2>2, EndLeft
<1>10. QED
  BY <1>2, <1>3, <1>4, <1>5, <1>6, <1>7, <1>8, <1>9
  DEF Progress, Crash, CommitExpiry, Book, Join, JoinRepeated, HookSell, Swept, At,
      BookRefused, SetKey, SetKeyFails, JoinRefused, CancelRefused, DelKey, PayRefused, PayRecord, PayConflict,
      HookSettled, HookRefused, BreakDeadlock, GiveUp, Abandon

\* Whatever a step changes of a request that has begun brings it nearer to its end.
StepsBounded ==
  [][\A s \in Sessions :
       sess'[s] # sess[s] => sess[s].phase = "idle" \/ StepsLeft(s)' < StepsLeft(s)]_vars

\* A request takes at most |Bookings| + 5 steps, whatever the others do between them: no
\* retry, no phase taken twice, and no row expired twice.
THEOREM RequestsBounded == Spec => StepsBounded
<1>1. ASSUME IInv, Next, NEW s \in Sessions, sess'[s] # sess[s], sess[s].phase # "idle"
      PROVE  StepsLeft(s)' < StepsLeft(s)
  <2>1. TypeOK /\ SessionShape /\ sess \in [Sessions -> Session]
    BY <1>1 DEF IInv, TypeOK
  <2>2. CASE \E t \in Sessions : Arrive(t)
    <3>1. PICK t \in Sessions : Arrive(t)
      BY <2>2
    <3>2. sess[t].phase = "idle" /\ \E r : Become(t, r)
      BY <3>1 DEF Arrive, StartBook, StartJoin, StartList, StartCancel, StartPay, StartHook, Start
    <3>3. QED BY <1>1, <2>1, <3>2 DEF Become
  <2>3. CASE \E t \in Sessions : Progress(t) \/ Crash(t)
    <3>1. PICK t \in Sessions : Progress(t) \/ Crash(t)
      BY <2>3
    <3>2. CASE t = s
      <4>1. PICK r \in Session : Become(s, r) /\ Left(r) < StepsLeft(s)
        BY <1>1, <2>1, <3>1, <3>2, OwnStepLeft
      <4>2. sess'[s] = r
        BY <2>1, <4>1 DEF Become
      <4>3. QED BY <4>1, <4>2 DEF StepsLeft, Left
    <3>3. CASE t # s
      <4>1. sess[t].phase # "idle"
        BY <3>1 DEF Progress, Crash, ExpireRow, Book, CommitExpiry, BookRefused, SetKey,
           SetKeyFails, Join, JoinLock, JoinRepeated, JoinRefused, HookEnter, Enter, Cancel, CancelRefused, DelKey, PayLock, PayCharge,
           PayRefused, PayRecord, PayConflict, HookLock, HookSettled, HookBooking, HookSell,
           HookRefused, BreakDeadlock, Deadlocked, Crossed, HasEntry, Swept, At
      <4>2. PICK r \in Session : Become(t, r)
        BY <2>1, <3>1, <4>1, OwnStepLeft
      <4>3. QED BY <1>1, <2>1, <3>3, <4>2 DEF Become
    <3>4. QED BY <3>2, <3>3
  <2>4. CASE Other
    BY <1>1, <2>4, OtherUnchanged
  <2>5. QED BY <1>1, <2>2, <2>3, <2>4 DEF Next, Other
<1>2. IInv /\ [Next]_vars =>
        [\A s \in Sessions :
           sess'[s] # sess[s] => sess[s].phase = "idle" \/ StepsLeft(s)' < StepsLeft(s)]_vars
  BY <1>1
<1>3. QED BY <1>2, Invariance, PTL DEF Spec, StepsBounded

-----------------------------------------------------------------------------
(* The sales implement PayableBookings.                                    *)

Charging(s) == At(s, "pay", "charge")
OverNow == WithStatus("EXPIRED") \cup WithStatus("CANCELLED") \cup WithStatus("COMPLETED")
PayHeld == {sess[s].booking : s \in {t \in Sessions : Charging(t)}}
Recorded == {b \in Bookings : payment[b] # "NONE"}

\* The booking that a payment is charged for is still held, and the sweep of the same
\* transaction has not marked it.
ChargesHeld ==
  \A s \in Sessions : Charging(s) =>
    booking[sess[s].booking].status = "RESERVED" /\ sess[s].booking \notin sess[s].stale

\* It is a booking, its row is locked, and no other session is on it.
LEMMA ChargingLocks ==
  ASSUME IInv, NEW s \in Sessions, Charging(s)
  PROVE  /\ sess[s].booking \in Bookings \cap RowLocks(s)
         /\ \A t \in Sessions \ {s} : sess[s].booking \notin RowLocks(t)
BY DEF IInv, Charging, At, SessionShape, WellFormed, RowLocks, LocksExclusive

\* What a step makes of the sessions at the provider.
LEMMA ChargingSteps ==
  ASSUME IInv, NEW s \in Sessions, Progress(s)
  PROVE  \/ PayCharge(s)
         \/ PayRecord(s) /\ Finish(s)
         \/ Charging(s) /\ Finish(s) /\ UNCHANGED <<booking, payment>>
         \/ ~Charging(s) /\ ~Charging(s)' /\ ~PayRecord(s)
<1>0. sess \in [Sessions -> Session]
  BY DEF IInv, TypeOK
<1>1. Finish(s) => ~Charging(s)'
  BY <1>0 DEF Finish, Become, Charging, At, IdleSession
<1>2. PayConflict(s) \/ BreakDeadlock(s) => Finish(s) /\ UNCHANGED <<booking, payment>>
  BY DEF PayConflict, BreakDeadlock, Abandon
<1>3. ASSUME NEW p \in {"redis", "body"}, NEW b, Become(s, After(s, p, b)) PROVE ~Charging(s)'
  BY <1>0, <1>3 DEF Become, After, IdleSession, Charging, At
<1>4. ASSUME NEW p \in {"expire", "booking", "enter", "redis"}, Become(s, [sess[s] EXCEPT !.phase = p])
      PROVE  ~Charging(s)'
  BY <1>0, <1>4 DEF Become, Charging, At, Session
<1>5. ASSUME NEW b \in Bookings, ExpireRow(s, b) PROVE ~Charging(s) /\ ~Charging(s)'
  BY <1>0, <1>5 DEF ExpireRow, Become, Charging, At, Session
<1>6. CASE Charging(s)
  BY <1>2, <1>6
  DEF Charging, Progress, ExpireRow, Book, CommitExpiry, BookRefused, SetKey, SetKeyFails, Join,
      JoinLock, JoinRepeated, JoinRefused, HookEnter, Enter, Cancel, CancelRefused, DelKey, PayLock, PayCharge, PayRefused, PayRecord,
      HookLock, HookSettled, HookBooking, HookSell, HookRefused, Swept, At
<1>7. CASE ~Charging(s)
  <2>1. ~PayRecord(s) /\ ~PayConflict(s)
    BY <1>7 DEF PayRecord, PayConflict, Charging
  <2>2. CASE Finish(s)
    BY <1>1, <1>7, <2>1, <2>2
  <2>3. CASE \E b \in Bookings : ExpireRow(s, b)
    BY <1>5, <2>1, <2>3
  <2>4. CASE \E b \in Bookings : Book(s, b)
    BY <1>3, <1>7, <2>1, <2>4 DEF Book
  <2>5. CASE CommitExpiry(s) \/ HookSell(s)
    BY <1>1, <1>3, <1>7, <2>1, <2>5 DEF CommitExpiry, HookSell
  <2>6. CASE \/ Cancel(s) \/ PayLock(s) \/ HookLock(s) \/ HookBooking(s)
             \/ JoinLock(s) \/ HookEnter(s)
    BY <1>4, <1>7, <2>1, <2>6
    DEF Cancel, PayLock, HookLock, HookBooking, Goto, JoinLock, HookEnter, Enter
  <2>7. QED
    BY <2>1, <2>2, <2>3, <2>4, <2>5, <2>6
    DEF Progress, BookRefused, SetKey, SetKeyFails, Join, JoinLock, JoinRepeated, JoinRefused, HookEnter, Enter, CancelRefused, DelKey,
        PayRefused, HookSettled, HookRefused, BreakDeadlock, GiveUp, Abandon
<1>8. QED BY <1>6, <1>7

\* No step ends a booking that is held for a payment.
LEMMA HeldStays ==
  ASSUME IInv, ChargesHeld, NEW s \in Sessions, Progress(s), NEW b \in PayHeld
  PROVE  booking'[b] = booking[b]
<1>1. PICK t \in Sessions : Charging(t) /\ b = sess[t].booking
  BY DEF PayHeld
<1>2. /\ b \in Bookings /\ b \in RowLocks(t) /\ \A u \in Sessions \ {t} : b \notin RowLocks(u)
      /\ booking[b].status = "RESERVED" /\ b \notin sess[t].stale
  BY <1>1, ChargingLocks DEF ChargesHeld
<1>3. ~Expires(s, b)
  BY <1>2 DEF Expires, RowLocks
<1>4. ~Book(s, b)
  BY <1>2 DEF Book
<1>5. ~Cancels(s, b)
  BY <1>1, <1>2 DEF Cancels, Cancel, SetKeyFails, RowFree, Charging, At
<1>6. ~Completes(s, b)
  <2>1. ASSUME HookSell(s), b = sess[s].booking PROVE FALSE
    BY <1>1, <1>2, <2>1 DEF HookSell, RowLocks, Charging, At
  <2>2. QED BY <2>1 DEF Completes
<1>7. QED BY <1>2, <1>3, <1>4, <1>5, <1>6, RowSteps DEF IInv

\* Ended bookings stay ended, and those that a step ends were not held.
LEMMA OverSteps ==
  ASSUME IInv, ChargesHeld, NEW s \in Sessions, Progress(s)
  PROVE  \E R \in SUBSET Bookings : R \cap PayHeld = {} /\ OverNow' = OverNow \cup R
<1> DEFINE R == OverNow' \ OverNow
<1>1. ASSUME NEW b \in OverNow PROVE b \in OverNow'
  <2>1. b \in Bookings /\ booking[b].status \in {"EXPIRED", "CANCELLED", "COMPLETED"}
    BY DEF OverNow, WithStatus
  <2>2. booking'[b] = booking[b]
    BY <2>1, RowSteps DEF IInv, Expires, Book, Cancels, Completes
  <2>3. QED BY <2>1, <2>2 DEF OverNow, WithStatus
<1>2. OverNow' \subseteq Bookings
  BY DEF OverNow, WithStatus
<1>3. R \cap PayHeld = {}
  BY HeldStays DEF OverNow, WithStatus
<1>4. OverNow' = OverNow \cup R
  BY <1>1
<1>5. QED BY <1>2, <1>3, <1>4

LEMMA RecordedSteps ==
  ASSUME IInv, NEW s \in Sessions, Progress(s)
  PROVE  \/ Recorded' = Recorded /\ ~PayRecord(s)
         \/ /\ PayRecord(s) /\ sess[s].booking \notin Recorded
            /\ Recorded' = Recorded \cup {sess[s].booking}
<1>1. CASE PayRecord(s)
  BY <1>1, ChargingLocks DEF PayRecord, Charging, Recorded, IInv, TypeOK
<1>2. CASE ~PayRecord(s)
  <2>1. ASSUME NEW b \in Bookings PROVE payment'[b] # "NONE" <=> payment[b] # "NONE"
    BY <1>2, PaymentSteps, Sale DEF IInv
  <2>2. QED BY <1>2, <2>1 DEF Recorded
<1>3. QED BY <1>1, <1>2

\* A session that leaves the provider gives its booking free, and nobody else's.
LEMMA HeldLess ==
  ASSUME IInv, NEW s \in Sessions, Charging(s), ~Charging(s)',
         \A t \in Sessions \ {s} : sess'[t] = sess[t]
  PROVE  PayHeld' = PayHeld \ {sess[s].booking} /\ sess[s].booking \in PayHeld
<1>1. \A t \in Sessions \ {s} : Charging(t) => sess[t].booking # sess[s].booking
  BY ChargingLocks
<1>2. \A t \in Sessions \ {s} : Charging(t)' <=> Charging(t)
  BY DEF Charging, At
<1>3. QED BY <1>1, <1>2 DEF PayHeld

LEMMA HeldSame ==
  ASSUME NEW s \in Sessions, ~Charging(s), ~Charging(s)',
         \A t \in Sessions \ {s} : sess'[t] = sess[t]
  PROVE  PayHeld' = PayHeld
BY DEF PayHeld, Charging, At

\* The step that finds a booking payable.
LEMMA BeginsHold ==
  ASSUME IInv, NEW s \in Sessions, PayCharge(s)
  PROVE  /\ sess[s].booking \in Bookings \ PayHeld
         /\ booking[sess[s].booking].status = "RESERVED"
         /\ PayHeld' = PayHeld \cup {sess[s].booking}
         /\ Charging(s)' /\ sess'[s].booking = sess[s].booking
         /\ sess'[s].booking \notin sess'[s].stale
         /\ \A t \in Sessions \ {s} : sess'[t] = sess[t]
<1> DEFINE b == sess[s].booking
<1>1. /\ sess \in [Sessions -> Session] /\ sess[s].op = "pay" /\ sess[s].phase = "expire"
      /\ Become(s, [After(s, "charge", b) EXCEPT !.stale = sess[s].stale])
      /\ b \in Bookings /\ AfterExpiry(s)[b].status = "RESERVED"
  BY DEF IInv, TypeOK, PayCharge, Swept, Live, SessionShape, WellFormed
<1>2. /\ sess'[s].op = "pay" /\ sess'[s].phase = "charge" /\ sess'[s].booking = b
      /\ sess'[s].stale = sess[s].stale /\ \A t \in Sessions \ {s} : sess'[t] = sess[t]
  BY <1>1 DEF Become, After, IdleSession
<1>3. b \notin sess[s].stale /\ booking[b].status = "RESERVED"
  BY <1>1, ExpiredRow DEF IInv
<1>4. b \in RowLocks(s)
  BY <1>1 DEF RowLocks
<1>5. b \notin PayHeld
  <2>1. ASSUME NEW t \in Sessions, Charging(t), b = sess[t].booking PROVE FALSE
    BY <1>1, <1>4, <2>1, ChargingLocks DEF Charging, At
  <2>2. QED BY <2>1 DEF PayHeld
<1>6. ~Charging(s) /\ Charging(s)' /\ \A t \in Sessions \ {s} : Charging(t)' <=> Charging(t)
  BY <1>1, <1>2 DEF Charging, At
<1>7. PayHeld' = PayHeld \cup {b}
  BY <1>2, <1>6 DEF PayHeld
<1>8. QED BY <1>1, <1>2, <1>3, <1>5, <1>6, <1>7

LEMMA ChargesStep == IInv /\ ChargesHeld /\ [Next]_vars => ChargesHeld'
<1> SUFFICES ASSUME IInv, ChargesHeld, [Next]_vars, NEW t \in Sessions, Charging(t)'
             PROVE  /\ booking'[sess'[t].booking].status = "RESERVED"
                    /\ sess'[t].booking \notin sess'[t].stale
  BY DEF ChargesHeld, Charging
<1>1. ASSUME sess'[t] = sess[t], Charging(t) => booking'[sess[t].booking] = booking[sess[t].booking]
      PROVE  /\ booking'[sess'[t].booking].status = "RESERVED"
             /\ sess'[t].booking \notin sess'[t].stale
  BY <1>1 DEF ChargesHeld, Charging, At
<1>2. ASSUME NEW s \in Sessions, Progress(s)
      PROVE  /\ booking'[sess'[t].booking].status = "RESERVED"
             /\ sess'[t].booking \notin sess'[t].stale
  <2>1. CASE t # s
    <3>1. sess'[t] = sess[t]
      BY <1>2, <2>1, OtherSessions DEF IInv
    <3>2. Charging(t) => sess[t].booking \in PayHeld
      BY DEF PayHeld
    <3>3. QED BY <1>1, <1>2, <3>1, <3>2, HeldStays
  <2>2. CASE t = s
    <3>1. Finish(s) => ~Charging(s)'
      BY DEF Finish, Become, Charging, At, IdleSession, IInv, TypeOK
    <3>2. PayCharge(s)
      BY <1>2, <2>2, <3>1, ChargingSteps
    <3>3. booking' = booking
      BY <3>2 DEF PayCharge
    <3>4. QED BY <2>2, <3>2, <3>3, BeginsHold
  <2>3. QED BY <2>1, <2>2
<1>3. ASSUME NEW s \in Sessions, Arrive(s) \/ Crash(s)
      PROVE  /\ booking'[sess'[t].booking].status = "RESERVED"
             /\ sess'[t].booking \notin sess'[t].stale
  <2>1. /\ booking' = booking /\ \A u \in Sessions \ {s} : sess'[u] = sess[u]
        /\ RowLocks(s)' = {}
    BY <1>3, ArriveStep DEF IInv
  <2>2. t # s
    BY <2>1 DEF RowLocks, Charging, At
  <2>3. QED BY <1>1, <2>1, <2>2
<1>4. CASE Other \/ UNCHANGED vars
  BY <1>1, <1>4, OtherUnchanged DEF vars
<1>5. QED BY <1>2, <1>3, <1>4 DEF Next, Other

LEMMA PayableStep == IInv /\ ChargesHeld /\ [Next]_vars => [Payable!Next]_(Payable!vars)
<1> SUFFICES ASSUME IInv, ChargesHeld, [Next]_vars
             PROVE  [Payable!Next]_(Payable!vars)
  OBVIOUS
<1>0. UNCHANGED <<OverNow, PayHeld, Recorded>> => UNCHANGED Payable!vars
  BY DEF Payable!vars, OverNow, PayHeld, Recorded, Charging
<1> USE DEF OverNow, PayHeld, Recorded, Charging
<1>1. ASSUME NEW s \in Sessions, Progress(s) PROVE Payable!Next
  <2>1. PICK R \in SUBSET Bookings : R \cap PayHeld = {} /\ OverNow' = OverNow \cup R
    BY <1>1, OverSteps
  <2>2. \A t \in Sessions \ {s} : sess'[t] = sess[t]
    BY <1>1, OtherSessions DEF IInv
  <2>3. Finish(s) => ~Charging(s)'
    BY DEF Finish, Become, At, IdleSession, IInv, TypeOK
  <2>4. CASE PayCharge(s)
    <3>1. PICK b \in Bookings : /\ b \notin PayHeld /\ booking[b].status = "RESERVED"
                                /\ PayHeld' = PayHeld \cup {b}
      BY <2>4, BeginsHold
    <3>2. UNCHANGED <<booking, payment>>
      BY <2>4 DEF PayCharge
    <3>3. Payable!Begin(b)
      BY <3>1, <3>2 DEF Payable!Begin, WithStatus
    <3>4. QED BY <3>1, <3>3 DEF Payable!Next
  <2>5. CASE PayRecord(s) /\ Finish(s)
    <3>1. Charging(s) /\ ~Charging(s)'
      BY <2>3, <2>5 DEF PayRecord
    <3>2. PICK b \in Bookings : b = sess[s].booking
      BY <3>1, ChargingLocks
    <3>3. PayHeld' = PayHeld \ {b} /\ b \in PayHeld
      BY <2>2, <3>1, <3>2, HeldLess
    <3>4. b \notin Recorded /\ Recorded' = Recorded \cup {b}
      BY <1>1, <2>5, <3>2, RecordedSteps
    <3>5. Payable!Record(b, R)
      BY <2>1, <3>3, <3>4 DEF Payable!Record
    <3>6. QED BY <2>1, <3>5 DEF Payable!Next
  <2>6. CASE Charging(s) /\ Finish(s) /\ UNCHANGED <<booking, payment>>
    <3>1. PICK b \in Bookings : b = sess[s].booking
      BY <2>6, ChargingLocks
    <3>2. PayHeld' = PayHeld \ {b} /\ b \in PayHeld
      BY <2>2, <2>3, <2>6, <3>1, HeldLess
    <3>3. Payable!Release(b)
      BY <2>6, <3>2 DEF Payable!Release, WithStatus
    <3>4. QED BY <3>3 DEF Payable!Next
  <2>7. CASE ~Charging(s) /\ ~Charging(s)' /\ ~PayRecord(s)
    <3>1. PayHeld' = PayHeld
      BY <2>2, <2>7, HeldSame
    <3>2. Recorded' = Recorded
      BY <1>1, <2>7, RecordedSteps
    <3>3. Payable!End(R)
      BY <2>1, <3>1, <3>2 DEF Payable!End
    <3>4. QED BY <2>1, <3>3 DEF Payable!Next
  <2>8. QED BY <1>1, <2>4, <2>5, <2>6, <2>7, ChargingSteps
<1>2. ASSUME NEW s \in Sessions, Arrive(s) \/ Crash(s)
      PROVE  [Payable!Next]_(Payable!vars)
  <2>1. /\ UNCHANGED <<booking, payment>> /\ \A u \in Sessions \ {s} : sess'[u] = sess[u]
        /\ RowLocks(s)' = {}
    BY <1>2, ArriveStep DEF IInv
  <2>2. ~Charging(s)'
    BY <2>1 DEF RowLocks, At
  <2>3. CASE Charging(s)
    <3>1. PICK b \in Bookings : b = sess[s].booking
      BY <2>3, ChargingLocks
    <3>2. PayHeld' = PayHeld \ {b} /\ b \in PayHeld
      BY <2>1, <2>2, <2>3, <3>1, HeldLess
    <3>3. Payable!Release(b)
      BY <2>1, <3>2 DEF Payable!Release, WithStatus
    <3>4. Payable!Next
      BY <3>3 DEF Payable!Next
    <3>5. QED BY <3>4
  <2>4. CASE ~Charging(s)
    <3>1. PayHeld' = PayHeld
      BY <2>1, <2>2, <2>4, HeldSame
    <3>2. QED BY <1>0, <2>1, <3>1 DEF WithStatus
  <2>5. QED BY <2>3, <2>4
<1>3. CASE Other
  <2>1. UNCHANGED <<booking, sess>>
    BY <1>3, OtherUnchanged
  <2>2. \A b \in Bookings : payment'[b] # "NONE" <=> payment[b] # "NONE"
    BY <1>3 DEF Other, MarkNonPaid, Organizer, EditEvent, WriteEdit, CancelEvent, KeyExpires,
                Tick, IInv, TypeOK
  <2>3. QED BY <1>0, <2>1, <2>2 DEF WithStatus, At
<1>4. CASE UNCHANGED vars
  BY <1>0, <1>4 DEF vars, WithStatus, At
<1>5. QED BY <1>1, <1>2, <1>3, <1>4 DEF Next, Other

\* Whatever requests, sweeps and webhooks interleave with it, the booking of a payment at
\* the provider is neither ended nor paid twice (createPendingPaymentForBooking,
\* expireStaleBookings, cancelBooking, processPaymentWebhook).
THEOREM SalesHoldPayments == Spec => PaymentsHold
<1>1. Init => ChargesHeld /\ Payable!Init
  BY DEF Init, IdleSession, ChargesHeld, Charging, At, Payable!Init, WithStatus
<1>2. QED BY <1>1, ChargesStep, PayableStep, Invariance, PTL DEF Spec, PaymentsHold, Payable!Spec

=============================================================================
