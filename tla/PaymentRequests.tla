-------------------------- MODULE PaymentRequests --------------------------
(***************************************************************************)
(* Requests for the payment of bookings: createPendingPaymentForBooking    *)
(* run by runWithIdempotency.  The requests of one user with one key are   *)
(* the sessions of IdempotencyKeys, whose bodies are here the bookings to  *)
(* be paid; requests without a key, or with another one, meet them only in *)
(* the tables.  The provider's charge is created inside the transaction,   *)
(* which holds the booking's row from its first query to its end.          *)
(***************************************************************************)
EXTENDS IdempotencyKeys, FiniteSets

CONSTANTS
  Others,   \* requests without the key served concurrently
  Charges,  \* the provider's charges; a bound, each is created once
  NoCharge

ASSUME PayNamesAssumption ==
  NoCharge \notin Charges /\ Others \cap Sessions = {} /\ IsFiniteSet(Charges)

VARIABLES
  life,     \* of each booking: RESERVED, past its limit but RESERVED, or ended
  payment,  \* payments, unique by booking: the charge each row refers to
  created,  \* the provider's charges
  refs,     \* the charge each effect of the key returned, the response_body
  tx,       \* the transaction each caller is in, and its charge
  shown     \* history: the charges that 201 answers gave to clients

payVars == <<life, payment, created, refs, tx, shown>>
allVars == <<vars, payVars>>

Callers == Sessions \cup Others
Tx == [stage : {"none", "locked", "charged"}, booking : Bodies \cup {NoBody},
       charge : Charges \cup {NoCharge}]
NoTx == [stage |-> "none", booking |-> NoBody, charge |-> NoCharge]

PayTypeOK ==
  /\ TypeOK
  /\ life \in [Bodies -> {"open", "over", "ended"}]
  /\ payment \in [Bodies -> Charges \cup {NoCharge}]
  /\ created \subseteq Charges /\ shown \subseteq Charges
  /\ refs \in Seq(Charges) /\ Len(refs) = Len(effects)
  /\ tx \in [Callers -> Tx]

PayInit ==
  /\ Init
  /\ life = [b \in Bodies |-> "open"]
  /\ payment = [b \in Bodies |-> NoCharge]
  /\ created = {} /\ shown = {} /\ refs = <<>>
  /\ tx = [c \in Callers |-> NoTx]

Ended(c) == tx' = [tx EXCEPT ![c] = NoTx]

\* Mutated form: the booking is read without FOR UPDATE.
RowFree_Unlocked(b) == TRUE
\* SELECT ... FOR UPDATE of the booking gets its row.
RowFree(b) == \A c \in Callers : tx[c].booking # b

\* The transaction of a caller begins on booking b, which is open for payment:
\* RESERVED and not past its limit.
Begin(c, b) ==
  /\ tx[c] = NoTx /\ RowFree(b) /\ life[b] = "open"
  /\ IF c \in Sessions THEN In(c, "execute") /\ sess[c].body = b /\ UNCHANGED vars
     ELSE /\ sent < MaxRequests /\ sent' = sent + 1
          /\ UNCHANGED <<now, row, effects, sess, answers, unsaved>>
  /\ tx' = [tx EXCEPT ![c] = [stage |-> "locked", booking |-> b, charge |-> NoCharge]]
  /\ UNCHANGED <<life, payment, created, refs, shown>>

\* createPixCharge: POST /payments and GET pixQrCode.
CreateCharge(c) ==
  /\ tx[c].stage = "locked"
  /\ \E g \in Charges \ created :
       /\ created' = created \cup {g}
       /\ tx' = [tx EXCEPT ![c] = [@ EXCEPT !.stage = "charged", !.charge = g]]
  /\ UNCHANGED <<vars, life, payment, refs, shown>>

\* The transaction throws and is rolled back.
Throws(c) ==
  /\ Ended(c)
  /\ IF c \in Sessions THEN ExecuteThrows(c) ELSE UNCHANGED vars
  /\ UNCHANGED <<life, payment, refs, shown>>

\* Either call fails; the charge may exist by then.
ChargeFails(c) ==
  /\ tx[c].stage = "locked"
  /\ created' \in {created} \cup {created \cup {g} : g \in Charges}
  /\ Throws(c)

\* BOOKING_NOT_PAYABLE, BOOKING_EXPIRED
NotPayable(s) ==
  /\ In(s, "execute") /\ tx[s] = NoTx /\ life[sess[s].body] # "open"
  /\ ExecuteThrows(s)
  /\ UNCHANGED payVars

\* The row of caller c's payment is inserted and committed.
Recorded(c) ==
  /\ tx[c].stage = "charged" /\ payment[tx[c].booking] = NoCharge
  /\ payment' = [payment EXCEPT ![tx[c].booking] = tx[c].charge]
  /\ Ended(c)
  /\ UNCHANGED <<life, created>>
Returned(c) == refs' = Append(refs, tx[c].charge)

\* Mutated form: a second payment of the booking takes the place of the first.
Record_Upsert(c) ==
  /\ tx[c].stage = "charged"
  /\ payment' = [payment EXCEPT ![tx[c].booking] = tx[c].charge]
  /\ Ended(c)
  /\ UNCHANGED <<life, created>>
  /\ IF c \in Sessions THEN Execute(c) /\ Returned(c) /\ shown' = shown
     ELSE /\ shown' \in {shown, shown \cup {tx[c].charge}}
          /\ UNCHANGED <<vars, refs>>
\* INSERT and COMMIT.  A request without a key is answered at once, or its
\* answer is lost.
Record(c) ==
  /\ Recorded(c)
  /\ IF c \in Sessions THEN Execute(c) /\ Returned(c) /\ shown' = shown
     ELSE /\ shown' \in {shown, shown \cup {tx[c].charge}}
          /\ UNCHANGED <<vars, refs>>

\* COMMIT is done and its answer is lost: the caller throws.
RecordUnknown(c) ==
  /\ StoreMayFail
  /\ Recorded(c)
  /\ IF c \in Sessions THEN ExecuteUnknown(c) /\ Returned(c) ELSE UNCHANGED <<vars, refs>>
  /\ UNCHANGED shown

\* 409 PAYMENT_ALREADY_EXISTS: the charge stays with the provider.
Conflict(c) ==
  /\ tx[c].stage = "charged" /\ payment[tx[c].booking] # NoCharge
  /\ Throws(c)
  /\ UNCHANGED created

\* expires_at passes: no row changes yet.
LimitPasses(b) ==
  /\ life[b] = "open"
  /\ life' = [life EXCEPT ![b] = "over"]
  /\ UNCHANGED <<vars, payment, created, refs, tx, shown>>

\* The booking is expired, cancelled or sold, by a transaction that has its row.
BookingEnds(b) ==
  /\ life[b] # "ended" /\ RowFree(b)
  /\ life' = [life EXCEPT ![b] = "ended"]
  /\ UNCHANGED <<vars, payment, created, refs, tx, shown>>

\* 201 with the charge, fresh or stored.
AnswerCharge(s) ==
  /\ Answer(s)
  /\ shown' = shown \cup {refs[sess[s].result]}
  /\ UNCHANGED <<life, payment, created, refs, tx>>

\* The process dies, or a query before the COMMIT fails: Postgres rolls back.
CrashTx(c) ==
  /\ Ended(c)
  /\ IF c \in Sessions THEN Crash(c) ELSE tx[c] # NoTx /\ UNCHANGED vars
  /\ UNCHANGED <<life, payment, created, refs, shown>>

\* A step of the protocol of the key.
KeyStep(s) ==
  /\ \/ Find(s) \/ Insert(s) \/ Refind(s) \/ RefuseInProgress(s)
     \/ Complete(s) \/ CompleteFails(s) \/ AnswerThrows(s) \/ Undo(s)
     \/ \E b \in Bodies : Send(s, b)
  /\ UNCHANGED payVars

PayNext ==
  \/ \E s \in Sessions : KeyStep(s) \/ AnswerCharge(s) \/ NotPayable(s)
  \/ \E c \in Callers :
       \/ \E b \in Bodies : Begin(c, b)
       \/ CreateCharge(c) \/ ChargeFails(c)
       \/ Record(c) \/ RecordUnknown(c) \/ Conflict(c) \/ CrashTx(c)
  \/ \E b \in Bodies : LimitPasses(b) \/ BookingEnds(b)
  \/ Tick /\ UNCHANGED payVars

PaySpec == PayInit /\ [][PayNext]_allVars

-----------------------------------------------------------------------------
(* What must hold. *)

\* Charges that no row records exist (a refused or failed transaction leaves its
\* charge with the provider), but nobody is ever given one to pay: a charge in an
\* answer, fresh or replayed, is the one its booking's row records, for good, so
\* that the webhook of whatever a client pays finds a payment.
ShownIsRecorded == \A g \in shown : \E b \in Bodies : payment[b] = g

\* A payment is recorded only for a booking that is still held: a call to the
\* provider lies between the check and the insert, and its limit may pass during
\* it, but nobody expires, cancels or sells the booking meanwhile.
RecordedWhileHeld ==
  [][\A b \in Bodies : payment'[b] # payment[b] => life[b] # "ended"]_allVars

-----------------------------------------------------------------------------
(* BookingEnds stands for the requests of TicketSales that expire, cancel  *)
(* or sell the booking.  What a payment relies on of them, and they of it, *)
(* is PayableBookings: this module and TicketSales both implement it.      *)

Payable == INSTANCE PayableBookings WITH
  Bookings <- Bodies,
  over <- {b \in Bodies : life[b] = "ended"},
  held <- {tx[c].booking : c \in Callers} \ {NoBody},
  recorded <- {b \in Bodies : payment[b] # NoCharge}

\* A payment holds its booking from the check that it is payable, through the calls
\* to the provider, to the insert or the rollback: nobody expires, cancels or sells it
\* meanwhile, a second payment waits, and it is recorded once.
PaymentsHold == Payable!Spec

=============================================================================
